---- MODULE Spec2Model ----
(***************************************************************************)
(* LetTalky peer registry and proximity-discovery service                  *)
(* (src/unnamed/part_000: the Express server).                             *)
(*                                                                         *)
(* Units.  Time is in milliseconds, as Date.now().  Coordinates are        *)
(* integers counting 1e-7 degree, so that the toFixed(6) rounding of the   *)
(* stored location is visible.  Distances are integers counting            *)
(* millimetres (rounded down).  Every modelled point lies on the meridian  *)
(* longitude = 0, where the haversine formula reduces to R * |dphi|.       *)
(***************************************************************************)
EXTENDS Integers, Sequences, FiniteSets, TLC

(***************************************************************************)
(* JavaScript values of request bodies and query strings.                  *)
(***************************************************************************)
Undef == [t |-> "undefined"]
NaN == [t |-> "NaN"]
Num(n) == [t |-> "number", n |-> n]
\* a string whose characters are never inspected (peerId, avatar, status)
Str(s) == [t |-> "string", s |-> s]
\* a string as the sequence of its characters (username, range)
Chars(cs) == [t |-> "string", cs |-> cs]
Obj(lat, lon) == [t |-> "object", latitude |-> lat, longitude |-> lon]

IsString(v) == v.t = "string"
IsNumber(v) == v.t \in {"number", "NaN"}
StrLen(v) == IF "cs" \in DOMAIN v THEN Len(v.cs) ELSE Len(v.s)
\* !v
Falsy(v) ==
  \/ v.t \in {"undefined", "NaN"}
  \/ v.t = "number" /\ v.n = 0
  \/ v.t = "string" /\ StrLen(v) = 0

Abs(n) == IF n < 0 THEN 0 - n ELSE n
Min(a, b) == IF a < b THEN a ELSE b
Max(a, b) == IF a > b THEN a ELSE b

(***************************************************************************)
(* Constants of the server.                                                *)
(***************************************************************************)
PEER_TIMEOUT == 480000
MAX_PEERS_PER_USER == 100
DEFAULT_RANGE == 5000
MAX_USERNAME_LENGTH == 20
MIN_USERNAME_LENGTH == 3
MIN_PEERID_LENGTH == 10
MAX_AVATAR_LENGTH == 10
USERNAME_RADIUS == 1000
MAX_RANGE == 50000
ACTIVE_WINDOW == 60000
ONLINE_WINDOW == 30000
SORT_DISTANCE_GAP == 100
SWEEP_INTERVAL == 180000
DEFAULT_ACCURACY == 1000
\* 90 and 180 degrees in units of 1e-7 degree
MAX_LATITUDE == 900000000
MAX_LONGITUDE == 1800000000
Infinity == 2000000000

(***************************************************************************)
(* String helpers: String.prototype.trim, toLowerCase and the username     *)
(* character class /^[a-zA-Z0-9\s\-_.]+$/.                                 *)
(***************************************************************************)
UpperCase == <<"A", "B", "C", "D", "E", "F", "G", "H", "I", "J", "K", "L", "M",
               "N", "O", "P", "Q", "R", "S", "T", "U", "V", "W", "X", "Y", "Z">>
LowerCase == <<"a", "b", "c", "d", "e", "f", "g", "h", "i", "j", "k", "l", "m",
               "n", "o", "p", "q", "r", "s", "t", "u", "v", "w", "x", "y", "z">>
Digits == {"0", "1", "2", "3", "4", "5", "6", "7", "8", "9"}
WhiteSpace == {" ", "\t"}
Range(f) == {f[i] : i \in DOMAIN f}

RECURSIVE TrimStart(_)
TrimStart(cs) ==
  IF cs # <<>> /\ Head(cs) \in WhiteSpace THEN TrimStart(Tail(cs)) ELSE cs

RECURSIVE TrimEnd(_)
TrimEnd(cs) ==
  IF cs # <<>> /\ cs[Len(cs)] \in WhiteSpace
  THEN TrimEnd(SubSeq(cs, 1, Len(cs) - 1))
  ELSE cs

trim(cs) == TrimEnd(TrimStart(cs))

LowerOf ==
  [c \in Range(UpperCase) |->
     LowerCase[CHOOSE i \in DOMAIN UpperCase : UpperCase[i] = c]]
UsernameChars ==
  Range(UpperCase) \cup Range(LowerCase) \cup Digits \cup WhiteSpace
  \cup {"-", "_", "."}

LowerChar(c) == IF c \in DOMAIN LowerOf THEN LowerOf[c] ELSE c

toLowerCase(cs) == [i \in DOMAIN cs |-> LowerChar(cs[i])]

UsernameCharOk(c) == c \in UsernameChars

UsernameRegexTest(cs) == cs # <<>> /\ \A i \in DOMAIN cs : UsernameCharOk(cs[i])

(***************************************************************************)
(* Number helpers.                                                         *)
(***************************************************************************)
\* parseFloat(x.toFixed(6)) on a coordinate counted in 1e-7 degree: the
\* nearest multiple of 10, halves away from zero
toFixed6(x) ==
  IF x < 0 THEN 0 - (((0 - x) + 5) \div 10) * 10 ELSE ((x + 5) \div 10) * 10

\* R * dphi for dphi counted in 1e-7 degree, in millimetres:
\* 6371000 * pi / 180 * 1e-7 m = 11.11949 mm
ArcMillimetres(d) ==
  11 * d + (d \div 100000) * 11949 + ((d % 100000) * 11949) \div 100000

\* the NaN that the arithmetic yields from a NaN coordinate; a distance that
\* is a number is never negative
NaNDistance == 0 - 1

\* d < x and d <= x on a distance d: a comparison with NaN is false
LessThan(d, x) == d # NaNDistance /\ d < x
AtMost(d, x) == d # NaNDistance /\ d <= x

\* calculateDistance without the typeof test: a coordinate that is not a
\* number is taken for the other point's
calculateDistanceCoerced(loc1, loc2) ==
  IF \/ loc1.t # "object" \/ loc2.t # "object"
  THEN Infinity
  ELSE IF \E v \in {loc1.latitude, loc2.latitude} :
            v.t = "number" /\ Abs(v.n) > MAX_LATITUDE
  THEN Infinity
  ELSE IF \E v \in {loc1.longitude, loc2.longitude} :
            v.t = "number" /\ Abs(v.n) > MAX_LONGITUDE
  THEN Infinity
  ELSE IF loc1.latitude.t # "number" \/ loc2.latitude.t # "number"
  THEN 0
  ELSE Max(0, ArcMillimetres(Abs(loc2.latitude.n - loc1.latitude.n)))

\* calculateDistance measuring the arc from loc1 to loc2 with its sign
calculateDistanceSigned(loc1, loc2) ==
  IF \/ loc1.t # "object" \/ loc2.t # "object"
  THEN Infinity
  ELSE IF \/ ~IsNumber(loc1.latitude) \/ ~IsNumber(loc1.longitude)
          \/ ~IsNumber(loc2.latitude) \/ ~IsNumber(loc2.longitude)
  THEN Infinity
  ELSE IF \E v \in {loc1.latitude, loc2.latitude} :
            v.t = "number" /\ Abs(v.n) > MAX_LATITUDE
  THEN Infinity
  ELSE IF \E v \in {loc1.longitude, loc2.longitude} :
            v.t = "number" /\ Abs(v.n) > MAX_LONGITUDE
  THEN Infinity
  ELSE IF \E v \in {loc1.latitude, loc1.longitude, loc2.latitude, loc2.longitude} :
            v.t = "NaN"
  THEN NaNDistance
  ELSE IF loc2.latitude.n < loc1.latitude.n
  THEN 0 - ArcMillimetres(loc1.latitude.n - loc2.latitude.n)
  ELSE ArcMillimetres(loc2.latitude.n - loc1.latitude.n)

\* typeof NaN is 'number' and Math.abs(NaN) > 90 is false: a NaN coordinate
\* passes both tests and makes the result NaN
calculateDistance(loc1, loc2) ==
  IF \/ loc1.t # "object" \/ loc2.t # "object"
  THEN Infinity
  ELSE IF \/ ~IsNumber(loc1.latitude) \/ ~IsNumber(loc1.longitude)
          \/ ~IsNumber(loc2.latitude) \/ ~IsNumber(loc2.longitude)
  THEN Infinity
  ELSE IF \E v \in {loc1.latitude, loc2.latitude} :
            v.t = "number" /\ Abs(v.n) > MAX_LATITUDE
  THEN Infinity
  ELSE IF \E v \in {loc1.longitude, loc2.longitude} :
            v.t = "number" /\ Abs(v.n) > MAX_LONGITUDE
  THEN Infinity
  ELSE IF \E v \in {loc1.latitude, loc1.longitude, loc2.latitude, loc2.longitude} :
            v.t = "NaN"
  THEN NaNDistance
  ELSE Max(0, ArcMillimetres(Abs(loc2.latitude.n - loc1.latitude.n)))

(***************************************************************************)
(* State.                                                                  *)
(*   peers            the Map `peers`, as the sequence of its values in    *)
(*                    insertion order (a Map iterates in insertion order)  *)
(*   connectionStats  the counters object                                  *)
(*   now              the value Date.now() returns                         *)
(*   nextSweep        when the setInterval timer next runs cleanupOldPeers *)
(*   resp             the request last handled and the response sent       *)
(*   firstJoinedAt    history: joinedAt of each peerId's first record      *)
(*   requestedAt      history: the location, as sent, of the Register      *)
(*                    request behind each record of the registry           *)
(*   app              the fields of the client's LetTalkyApp: the counter  *)
(*                    reconnectAttempts, whether its peer is open, is      *)
(*                    disconnected from the signalling server (neither:    *)
(*                    it is connecting) and has its listeners, and when    *)
(*                    the heartbeat timer next fires (0: no timer)         *)
(*   pending          what the client has under way: its POST /register,   *)
(*                    its POST /heartbeat requests not yet handled, and    *)
(*                    the callbacks attemptReconnection has scheduled      *)
(*   attemptsSinceOpen history: the reconnection attempts scheduled since  *)
(*                    the client's peer was last open                      *)
(***************************************************************************)
VARIABLES peers, connectionStats, now, nextSweep, resp, firstJoinedAt, requestedAt,
          app, pending, attemptsSinceOpen

\* the state of the client
clientVars == <<app, pending, attemptsSinceOpen>>

vars == <<peers, connectionStats, now, nextSweep, resp, firstJoinedAt, requestedAt,
          app, pending, attemptsSinceOpen>>

\* Date.now() when the server starts
StartTime == 1

(***************************************************************************)
(* Map operations on the registry.                                         *)
(***************************************************************************)
MapKeys(ps) == {ps[i].peerId : i \in DOMAIN ps}
MapHas(ps, id) == id \in MapKeys(ps)
MapGet(ps, id) == ps[CHOOSE i \in DOMAIN ps : ps[i].peerId = id]
\* MapSet adding an entry even when the key is present
MapSetAppends(ps, id, rec) == Append(ps, rec)

\* Map.prototype.set: an existing key keeps its place, a new key goes last
MapSet(ps, id, rec) ==
  IF MapHas(ps, id)
  THEN [i \in DOMAIN ps |-> IF ps[i].peerId = id THEN rec ELSE ps[i]]
  ELSE Append(ps, rec)
MapSize(ps) == Len(ps)
\* peers.get(v) finds a record: the keys of the registry are strings
HasKey(ps, v) == IsString(v) /\ MapHas(ps, v.s)

\* SweptPeers evicting a record from the age of the timeout on
SweptPeersFromTimeout(ps, t) ==
  LET Keep(p) == ~(t - p.lastSeen >= PEER_TIMEOUT) IN SelectSeq(ps, Keep)

\* SweptPeers evicting nothing
SweptPeersKeepsAll(ps, t) == ps

\* peers after the loop of cleanupOldPeers run at time t
SweptPeers(ps, t) ==
  LET Keep(p) == ~(t - p.lastSeen > PEER_TIMEOUT) IN SelectSeq(ps, Keep)

\* cleanupOldPeers(): the registry and the counters it leaves
cleanupOldPeers(ps, stats, t) ==
  LET kept == SweptPeers(ps, t)
  IN [peers |-> kept, stats |-> [stats EXCEPT !.activeUsers = MapSize(kept)]]

(***************************************************************************)
(* POST /register                                                          *)
(***************************************************************************)
E_PEER_ID == "Invalid peer ID format"
E_USERNAME_REQUIRED == "Username is required"
E_USERNAME_LENGTH == "Username must be between 3-20 characters"
E_USERNAME_CHARS == "Username contains invalid characters"
E_LOCATION_REQUIRED == "Valid location coordinates are required"
E_COORDINATES == "Invalid coordinate values"
E_AVATAR == "Invalid avatar format"
E_USERNAME_TAKEN == "Username already taken in this area. Please choose a different one."
E_PEER_NOT_FOUND == "Peer not found"

Reject(status, msg) == [status |-> status, json |-> [error |-> msg]]

\* location.latitude of a body whose location may be anything
Field(v, name) == IF v.t = "object" THEN v[name] ELSE Undef

\* existingPeer comparing the usernames as they are written
existingPeerCaseSensitive(ps, peerId, trimmedUsername, location) ==
  {i \in DOMAIN ps :
     /\ ps[i].username = trimmedUsername
     /\ ps[i].peerId # peerId.s
     /\ LessThan(calculateDistance(ps[i].location, location), USERNAME_RADIUS * 1000)}

\* the record of another peerId that Array.find returns, as a set (empty: undefined)
existingPeer(ps, peerId, trimmedUsername, location) ==
  {i \in DOMAIN ps :
     /\ toLowerCase(ps[i].username) = toLowerCase(trimmedUsername)
     /\ ps[i].peerId # peerId.s
     /\ LessThan(calculateDistance(ps[i].location, location), USERNAME_RADIUS * 1000)}

\* RegisterCheck testing the characters of the username before its length
RegisterCheckCharsFirst(ps, body) ==
  IF Falsy(body.peerId) \/ ~IsString(body.peerId)
     \/ StrLen(body.peerId) < MIN_PEERID_LENGTH
  THEN Reject(400, E_PEER_ID)
  ELSE IF Falsy(body.username) \/ ~IsString(body.username)
  THEN Reject(400, E_USERNAME_REQUIRED)
  ELSE IF ~UsernameRegexTest(trim(body.username.cs))
  THEN Reject(400, E_USERNAME_CHARS)
  ELSE IF \/ Len(trim(body.username.cs)) < MIN_USERNAME_LENGTH
          \/ Len(trim(body.username.cs)) > MAX_USERNAME_LENGTH
  THEN Reject(400, E_USERNAME_LENGTH)
  ELSE IF \/ Falsy(body.location)
          \/ ~IsNumber(Field(body.location, "latitude"))
          \/ ~IsNumber(Field(body.location, "longitude"))
  THEN Reject(400, E_LOCATION_REQUIRED)
  ELSE IF \/ Abs(body.location.latitude.n) > MAX_LATITUDE
          \/ Abs(body.location.longitude.n) > MAX_LONGITUDE
  THEN Reject(400, E_COORDINATES)
  ELSE IF Falsy(body.avatar) \/ ~IsString(body.avatar)
          \/ StrLen(body.avatar) > MAX_AVATAR_LENGTH
  THEN Reject(400, E_AVATAR)
  ELSE IF existingPeer(ps, body.peerId, trim(body.username.cs), body.location) # {}
  THEN Reject(409, E_USERNAME_TAKEN)
  ELSE [status |-> 200]

\* the checks of the handler in order: the rejection sent, or status 200
RegisterCheck(ps, body) ==
  IF Falsy(body.peerId) \/ ~IsString(body.peerId)
     \/ StrLen(body.peerId) < MIN_PEERID_LENGTH
  THEN Reject(400, E_PEER_ID)
  ELSE IF Falsy(body.username) \/ ~IsString(body.username)
  THEN Reject(400, E_USERNAME_REQUIRED)
  ELSE IF \/ Len(trim(body.username.cs)) < MIN_USERNAME_LENGTH
          \/ Len(trim(body.username.cs)) > MAX_USERNAME_LENGTH
  THEN Reject(400, E_USERNAME_LENGTH)
  ELSE IF ~UsernameRegexTest(trim(body.username.cs))
  THEN Reject(400, E_USERNAME_CHARS)
  ELSE IF \/ Falsy(body.location)
          \/ ~IsNumber(Field(body.location, "latitude"))
          \/ ~IsNumber(Field(body.location, "longitude"))
  THEN Reject(400, E_LOCATION_REQUIRED)
  ELSE IF \/ Abs(body.location.latitude.n) > MAX_LATITUDE
          \/ Abs(body.location.longitude.n) > MAX_LONGITUDE
  THEN Reject(400, E_COORDINATES)
  ELSE IF Falsy(body.avatar) \/ ~IsString(body.avatar)
          \/ StrLen(body.avatar) > MAX_AVATAR_LENGTH
  THEN Reject(400, E_AVATAR)
  ELSE IF existingPeer(ps, body.peerId, trim(body.username.cs), body.location) # {}
  THEN Reject(409, E_USERNAME_TAKEN)
  ELSE [status |-> 200]

\* joinedAt taken from the clock at every registration
JoinedAtReset(ps, id, t) == t

\* existingPeerData?.joinedAt || now
JoinedAtOf(ps, id, t) ==
  IF MapHas(ps, id) /\ MapGet(ps, id).joinedAt # 0 THEN MapGet(ps, id).joinedAt ELSE t
MessageCountOf(ps, id) == IF MapHas(ps, id) THEN MapGet(ps, id).messageCount ELSE 0
ConnectionsCountOf(ps, id) ==
  IF MapHas(ps, id) THEN MapGet(ps, id).connectionsCount ELSE 0

StoredLocation(location) ==
  [t |-> "object",
   latitude |-> Num(toFixed6(location.latitude.n)),
   longitude |-> Num(toFixed6(location.longitude.n)),
   accuracy |-> DEFAULT_ACCURACY]

\* peerData merging into the stored record: the status and the activity of
\* an existing record are kept
peerDataMerges(ps, body, t) ==
  [peerId |-> body.peerId.s,
   username |-> trim(body.username.cs),
   avatar |-> body.avatar.s,
   location |-> StoredLocation(body.location),
   lastSeen |-> t,
   joinedAt |-> JoinedAtOf(ps, body.peerId.s, t),
   messageCount |-> MessageCountOf(ps, body.peerId.s),
   connectionsCount |-> ConnectionsCountOf(ps, body.peerId.s),
   status |-> IF MapHas(ps, body.peerId.s)
              THEN MapGet(ps, body.peerId.s).status ELSE "online",
   lastActivity |-> IF MapHas(ps, body.peerId.s)
                    THEN MapGet(ps, body.peerId.s).lastActivity ELSE Undef,
   lastActivityTime |-> IF MapHas(ps, body.peerId.s)
                        THEN MapGet(ps, body.peerId.s).lastActivityTime ELSE Undef]

peerData(ps, body, t) ==
  [peerId |-> body.peerId.s,
   username |-> trim(body.username.cs),
   avatar |-> body.avatar.s,
   location |-> StoredLocation(body.location),
   lastSeen |-> t,
   joinedAt |-> JoinedAtOf(ps, body.peerId.s, t),
   messageCount |-> MessageCountOf(ps, body.peerId.s),
   connectionsCount |-> ConnectionsCountOf(ps, body.peerId.s),
   status |-> "online",
   lastActivity |-> Undef,
   lastActivityTime |-> Undef]

\* the keys of the registry that the history variables follow
Forget(h, ps) == [id \in DOMAIN h |-> IF MapHas(ps, id) THEN h[id] ELSE Undef]

\* RegisterRejected sweeping the registry before it answers
RegisterRejectedSweeps(ps, stats, check, t) ==
  [peers |-> cleanupOldPeers(ps, stats, t).peers,
   stats |-> cleanupOldPeers(ps, stats, t).stats,
   status |-> check.status, json |-> check.json]

\* a rejected request: the early return leaves the registry and the counters
RegisterRejected(ps, stats, check, t) ==
  [peers |-> ps, stats |-> stats, status |-> check.status, json |-> check.json]

\* RegisterAccepted counting every registration, of a stored peerId too
RegisterAcceptedCountsAll(ps, stats, body, t) ==
  LET id == body.peerId.s
      stored == MapSet(ps, id, peerData(ps, body, t))
      counted == [stats EXCEPT !.totalConnections = stats.totalConnections + 1]
      swept == cleanupOldPeers(stored, counted, t)
  IN [peers |-> swept.peers, stats |-> swept.stats, status |-> 200,
      json |-> [success |-> TRUE, peersCount |-> MapSize(swept.peers),
                serverTime |-> t]]

\* RegisterAccepted counting the records before the sweep
RegisterAcceptedCountsFirst(ps, stats, body, t) ==
  LET id == body.peerId.s
      stored == MapSet(ps, id, peerData(ps, body, t))
      counted == IF MapHas(ps, id)
                 THEN stats
                 ELSE [stats EXCEPT !.totalConnections = stats.totalConnections + 1]
      swept == cleanupOldPeers(stored, counted, t)
  IN [peers |-> swept.peers, stats |-> swept.stats, status |-> 200,
      json |-> [success |-> TRUE, peersCount |-> MapSize(stored),
                serverTime |-> t]]

\* an accepted request: store the record, count a new peer, sweep, answer
RegisterAccepted(ps, stats, body, t) ==
  LET id == body.peerId.s
      stored == MapSet(ps, id, peerData(ps, body, t))
      counted == IF MapHas(ps, id)
                 THEN stats
                 ELSE [stats EXCEPT !.totalConnections = stats.totalConnections + 1]
      swept == cleanupOldPeers(stored, counted, t)
  IN [peers |-> swept.peers, stats |-> swept.stats, status |-> 200,
      json |-> [success |-> TRUE, peersCount |-> MapSize(swept.peers),
                serverTime |-> t]]

\* the handler of POST /register on registry ps at time t
RegisterOutcome(ps, stats, body, t) ==
  LET check == RegisterCheck(ps, body)
  IN IF check.status # 200
     THEN RegisterRejected(ps, stats, check, t)
     ELSE RegisterAccepted(ps, stats, body, t)

\* the handler of POST /register on the state of the server
RegisterHandled(body) ==
  LET out == RegisterOutcome(peers, connectionStats, body, now)
      id == body.peerId.s
  IN /\ peers' = out.peers
     /\ connectionStats' = out.stats
     /\ resp' = [op |-> "register", req |-> body, status |-> out.status,
                 json |-> out.json]
     /\ firstJoinedAt' =
          IF out.status = 200 /\ id \in DOMAIN firstJoinedAt
          THEN [firstJoinedAt EXCEPT
                  ![id] = IF @ = 0 THEN MapGet(out.peers, id).joinedAt ELSE @]
          ELSE firstJoinedAt
     /\ requestedAt' =
          IF out.status = 200 /\ id \in DOMAIN requestedAt
          THEN Forget([requestedAt EXCEPT ![id] = body.location], out.peers)
          ELSE IF out.status = 200 THEN Forget(requestedAt, out.peers)
          ELSE requestedAt
     /\ UNCHANGED <<now, nextSweep>>

Register(body) == RegisterHandled(body) /\ UNCHANGED clientVars

(***************************************************************************)
(* GET /peers                                                              *)
(***************************************************************************)
E_PEER_ID_QUERY == "peerId query parameter is required"
E_REGISTER_FIRST == "Peer not found. Please register first."

DigitValue(c) == CHOOSE n \in 0..9 : ToString(n) = c

HexLetters ==
  [a |-> 10, b |-> 11, c |-> 12, d |-> 13, e |-> 14, f |-> 15,
   A |-> 10, B |-> 11, C |-> 12, D |-> 13, E |-> 14, F |-> 15]
HexDigits == Digits \cup DOMAIN HexLetters
HexValue(c) == IF c \in Digits THEN DigitValue(c) ELSE HexLetters[c]

RECURSIVE DigitsValue(_, _)
\* the number read from the leading digits of cs, after acc
DigitsValue(cs, acc) ==
  IF cs # <<>> /\ Head(cs) \in Digits
  THEN DigitsValue(Tail(cs), acc * 10 + DigitValue(Head(cs)))
  ELSE acc

RECURSIVE HexDigitsValue(_, _)
\* the number read from the leading hexadecimal digits of cs, after acc
HexDigitsValue(cs, acc) ==
  IF cs # <<>> /\ Head(cs) \in HexDigits
  THEN HexDigitsValue(Tail(cs), acc * 16 + HexValue(Head(cs)))
  ELSE acc

\* the digits of a string without its blanks and sign: after a 0x prefix
\* in base 16, else in base 10; NaN when there is no digit
ParsedDigits(body) ==
  IF Len(body) >= 2 /\ body[1] = "0" /\ body[2] \in {"x", "X"}
  THEN IF Len(body) >= 3 /\ body[3] \in HexDigits
       THEN Num(HexDigitsValue(Tail(Tail(body)), 0))
       ELSE NaN
  ELSE IF body = <<>> \/ Head(body) \notin Digits THEN NaN
  ELSE Num(DigitsValue(body, 0))

\* parseInt of a query-string value: blanks, a sign, then the digits
parseInt(v) ==
  IF v.t = "number" THEN v
  ELSE IF v.t # "string" THEN NaN
  ELSE LET s == TrimStart(v.cs)
           signed == s # <<>> /\ Head(s) \in {"-", "+"}
           parsed == ParsedDigits(IF signed THEN Tail(s) ELSE s)
       IN IF parsed.t = "number" /\ signed /\ Head(s) = "-"
          THEN Num(0 - parsed.n)
          ELSE parsed

\* searchRange without the cap
searchRangeUncapped(range) ==
  LET given == IF range.t = "undefined" THEN Num(DEFAULT_RANGE) ELSE range
      parsed == parseInt(given)
  IN IF Falsy(parsed) THEN DEFAULT_RANGE ELSE parsed.n

\* Math.min(parseInt(range) || DEFAULT_RANGE, 50000), range defaulting to
\* DEFAULT_RANGE when the query has none
searchRange(range) ==
  LET given == IF range.t = "undefined" THEN Num(DEFAULT_RANGE) ELSE range
      parsed == parseInt(given)
  IN Min(IF Falsy(parsed) THEN DEFAULT_RANGE ELSE parsed.n, MAX_RANGE)

\* Math.round of a distance counted in millimetres, in metres
RoundMetres(mm) == (mm + 500) \div 1000

\* NearbyEntry reporting the stored status
NearbyEntryStoredStatus(peer, distance, t) ==
  [peerId |-> peer.peerId,
   username |-> peer.username,
   avatar |-> peer.avatar,
   location |-> peer.location,
   distance |-> RoundMetres(distance),
   lastSeen |-> peer.lastSeen,
   isActive |-> (t - peer.lastSeen < ACTIVE_WINDOW),
   status |-> peer.status,
   joinedAt |-> peer.joinedAt]

\* the entry pushed for a peer that passed the filters
NearbyEntry(peer, distance, t) ==
  [peerId |-> peer.peerId,
   username |-> peer.username,
   avatar |-> peer.avatar,
   location |-> peer.location,
   distance |-> RoundMetres(distance),
   lastSeen |-> peer.lastSeen,
   isActive |-> (t - peer.lastSeen < ACTIVE_WINDOW),
   status |-> IF t - peer.lastSeen < ONLINE_WINDOW THEN "online" ELSE "away",
   joinedAt |-> peer.joinedAt]

\* IsNearby without the test of the age
IsNearbyAnyAge(peer, requester, range, t) ==
  /\ peer.peerId # requester.peerId
  /\ AtMost(calculateDistance(requester.location, peer.location), range * 1000)

\* IsNearby leaving out a record exactly range away
IsNearbyStrict(peer, requester, range, t) ==
  /\ peer.peerId # requester.peerId
  /\ ~(t - peer.lastSeen > PEER_TIMEOUT)
  /\ LessThan(calculateDistance(requester.location, peer.location), range * 1000)

\* whether the filter loop keeps a record
IsNearby(peer, requester, range, t) ==
  /\ peer.peerId # requester.peerId
  /\ ~(t - peer.lastSeen > PEER_TIMEOUT)
  /\ AtMost(calculateDistance(requester.location, peer.location), range * 1000)

\* the array the filter loop builds, in the Map's iteration order
nearbyPeers(ps, requester, range, t) ==
  LET Near(peer) == IsNearby(peer, requester, range, t)
      near == SelectSeq(ps, Near)
  IN [k \in 1..Len(near) |->
        NearbyEntry(near[k],
                    calculateDistance(requester.location, near[k].location), t)]

BoolNum(b) == IF b THEN 1 ELSE 0

\* compare ranking by distance and join time only
compareIgnoringActive(a, b) ==
  IF Abs(a.distance - b.distance) > SORT_DISTANCE_GAP
  THEN a.distance - b.distance
  ELSE b.joinedAt - a.joinedAt

\* compare ranking the earlier joinedAt first
compareOldestFirst(a, b) ==
  IF a.isActive # b.isActive THEN BoolNum(b.isActive) - BoolNum(a.isActive)
  ELSE IF Abs(a.distance - b.distance) > SORT_DISTANCE_GAP
  THEN a.distance - b.distance
  ELSE a.joinedAt - b.joinedAt

\* the comparator handed to Array.prototype.sort
compare(a, b) ==
  IF a.isActive # b.isActive THEN BoolNum(b.isActive) - BoolNum(a.isActive)
  ELSE IF Abs(a.distance - b.distance) > SORT_DISTANCE_GAP
  THEN a.distance - b.distance
  ELSE b.joinedAt - a.joinedAt

(***************************************************************************)
(* Array.prototype.sort as V8 runs it (TimSort): cut the array into runs,  *)
(* each the run the rest of the array starts with (a descending one        *)
(* reversed), grown by binary insertion to the minimal run length when it  *)
(* is shorter; push each run on a stack and merge the runs of the stack as *)
(* the lengths on it demand.  An array shorter than 64 is a single run.    *)
(* The merge is the stable merge of two runs; V8's galloping is a way of   *)
(* finding the same places faster in runs the comparator orders.           *)
(***************************************************************************)
\* the index of the last element of the run that a[1..idx-1] starts: the
\* element before the first one that breaks the order of the run
RunEnd(a, idx, isDescending) ==
  LET Breaks(j) == LET order == compare(a[j], a[j - 1])
                   IN (isDescending /\ order >= 0) \/ (~isDescending /\ order < 0)
      breaks == {j \in idx..Len(a) : Breaks(j)}
  IN IF breaks = {} THEN Len(a)
     ELSE (CHOOSE j \in breaks : \A other \in breaks : j <= other) - 1

Reverse(a) == [i \in DOMAIN a |-> a[Len(a) + 1 - i]]

RECURSIVE InsertionPoint(_, _, _, _)
\* binary search of a[left+1..right] for the place of pivot
InsertionPoint(a, pivot, left, right) ==
  IF left >= right THEN left
  ELSE LET mid == left + (right - left) \div 2
       IN IF compare(pivot, a[mid + 1]) < 0
          THEN InsertionPoint(a, pivot, left, mid)
          ELSE InsertionPoint(a, pivot, mid + 1, right)

\* a[1..start-1] is sorted; a with a[start] moved to its place in it
Inserted(a, start) ==
  LET pivot == a[start]
      at == InsertionPoint(a, pivot, 0, start - 1)
  IN [i \in DOMAIN a |->
        IF i <= at THEN a[i]
        ELSE IF i = at + 1 THEN pivot
        ELSE IF i <= start THEN a[i - 1]
        ELSE a[i]]

RECURSIVE InsertNext(_, _, _)
\* the next count elements from a[start] on inserted one by one
InsertNext(a, start, count) ==
  IF count = 0 \/ start > Len(a) THEN a
  ELSE InsertNext(Inserted(a, start), start + 1, count - 1)

RECURSIVE BinaryInsertionSort(_, _)
\* a[1..start-1] is sorted; insert a[start..] one by one (eight at a time,
\* to keep the evaluation shallow)
BinaryInsertionSort(a, start) ==
  IF start > Len(a) THEN a
  ELSE BinaryInsertionSort(InsertNext(a, start, 8), start + 8)

\* the run made of a chunk: the run it starts with, then binary insertion
MakeRun(a) ==
  IF Len(a) < 2 THEN a
  ELSE LET isDescending == compare(a[2], a[1]) < 0
           run == RunEnd(a, 3, isDescending)
           made == IF isDescending
                   THEN Reverse(SubSeq(a, 1, run)) \o SubSeq(a, run + 1, Len(a))
                   ELSE a
       IN BinaryInsertionSort(made, run + 1)

MIN_MERGE == 64

RECURSIVE ComputeMinRunLength(_, _)
\* n halved until it is below 64, plus 1 if a 1 bit was shifted out
ComputeMinRunLength(n, r) ==
  IF n >= MIN_MERGE
  THEN ComputeMinRunLength(n \div 2, IF n % 2 = 1 THEN 1 ELSE r)
  ELSE n + r

\* the length of the run that a starts with
CountRun(a) ==
  IF Len(a) < 2 THEN Len(a) ELSE RunEnd(a, 3, compare(a[2], a[1]) < 0)

RECURSIVE Runs(_, _)
\* the runs a is cut into, in order
Runs(a, minRunLength) ==
  IF a = <<>> THEN <<>>
  ELSE LET counted == CountRun(a)
           length == IF counted < minRunLength
                     THEN Min(minRunLength, Len(a))
                     ELSE counted
       IN <<MakeRun(SubSeq(a, 1, length))>>
            \o Runs(SubSeq(a, length + 1, Len(a)), minRunLength)

\* one step of the merge of runs x and y: the element of y goes next only
\* when it compares below the element of x
MergeStep(x, y, at) ==
  IF at.i > Len(x)
  THEN [i |-> at.i, j |-> Len(y) + 1, out |-> at.out \o SubSeq(y, at.j, Len(y))]
  ELSE IF at.j > Len(y)
  THEN [i |-> Len(x) + 1, j |-> at.j, out |-> at.out \o SubSeq(x, at.i, Len(x))]
  ELSE IF compare(y[at.j], x[at.i]) < 0
  THEN [i |-> at.i, j |-> at.j + 1, out |-> Append(at.out, y[at.j])]
  ELSE [i |-> at.i + 1, j |-> at.j, out |-> Append(at.out, x[at.i])]

RECURSIVE MergeSteps(_, _, _, _)
MergeSteps(x, y, at, count) ==
  IF count = 0 \/ (at.i > Len(x) /\ at.j > Len(y)) THEN at
  ELSE MergeSteps(x, y, MergeStep(x, y, at), count - 1)

RECURSIVE MergeFrom(_, _, _)
\* the merge continued to its end (eight steps at a time, to keep the
\* evaluation shallow)
MergeFrom(x, y, at) ==
  IF at.i > Len(x) /\ at.j > Len(y) THEN at.out
  ELSE MergeFrom(x, y, MergeSteps(x, y, at, 8))

\* the stable merge of two runs
Merge(x, y) == MergeFrom(x, y, [i |-> 1, j |-> 1, out |-> <<>>])

\* the stack of runs with runs n and n + 1 merged
MergeAt(runs, n) ==
  SubSeq(runs, 1, n - 1) \o <<Merge(runs[n], runs[n + 1])>>
    \o SubSeq(runs, n + 2, Len(runs))

\* the run two below run n is longer than run n and the run below it together
RunInvariantEstablished(runs, n) ==
  n < 3 \/ Len(runs[n - 2]) > Len(runs[n - 1]) + Len(runs[n])

RECURSIVE MergeCollapse(_)
\* merge the runs on top of the stack until the lengths decrease fast enough
MergeCollapse(runs) ==
  IF Len(runs) <= 1 THEN runs
  ELSE LET n == Len(runs) - 1
       IN IF \/ ~RunInvariantEstablished(runs, n + 1)
             \/ ~RunInvariantEstablished(runs, n)
          THEN MergeCollapse(
                 MergeAt(runs, IF Len(runs[n - 1]) < Len(runs[n + 1])
                               THEN n - 1 ELSE n))
          ELSE IF Len(runs[n]) <= Len(runs[n + 1])
          THEN MergeCollapse(MergeAt(runs, n))
          ELSE runs

RECURSIVE PushRuns(_, _)
\* push the runs one by one, collapsing the stack after each
PushRuns(stack, runs) ==
  IF runs = <<>> THEN stack
  ELSE PushRuns(MergeCollapse(Append(stack, Head(runs))), Tail(runs))

RECURSIVE MergeForceCollapse(_)
\* merge what is left on the stack into one run
MergeForceCollapse(runs) ==
  IF Len(runs) = 0 THEN <<>>
  ELSE IF Len(runs) = 1 THEN runs[1]
  ELSE LET n == Len(runs) - 1
       IN MergeForceCollapse(
            MergeAt(runs, IF n > 1 /\ Len(runs[n - 1]) < Len(runs[n + 1])
                          THEN n - 1 ELSE n))

sort(a) ==
  IF Len(a) < 2 THEN a
  ELSE MergeForceCollapse(PushRuns(<<>>, Runs(a, ComputeMinRunLength(Len(a), 0))))

\* slice keeping one element more
sliceOneMore(a, n) == SubSeq(a, 1, Min(n + 1, Len(a)))

\* Array.prototype.slice(0, n)
slice(a, n) == SubSeq(a, 1, Min(n, Len(a)))

\* the number of records seen within the last minute
\* activeUsers counting a record seen exactly one window ago
activeUsersInclusive(ps, t) ==
  Cardinality({i \in DOMAIN ps : t - ps[i].lastSeen <= ACTIVE_WINDOW})

activeUsers(ps, t) ==
  Cardinality({i \in DOMAIN ps : t - ps[i].lastSeen < ACTIVE_WINDOW})

\* the answer to a peerId the registry has no record of, sent with status 400
NotFoundAsBadRequest(msg) == Reject(400, msg)

\* res.status(404).json({ error }): the peerId has no record
NotFound(msg) == Reject(404, msg)

\* the response of GET /peers on registry ps at time t
DiscoverResponse(ps, query, t) ==
  IF Falsy(query.peerId)
  THEN Reject(400, E_PEER_ID_QUERY)
  ELSE IF ~HasKey(ps, query.peerId)
  THEN NotFound(E_REGISTER_FIRST)
  ELSE LET requester == MapGet(ps, query.peerId.s)
           range == searchRange(query.range)
           sorted == sort(nearbyPeers(ps, requester, range, t))
       IN [status |-> 200,
           json |-> [peers |-> slice(sorted, MAX_PEERS_PER_USER),
                     total |-> Len(sorted),
                     searchRange |-> range,
                     timestamp |-> t,
                     serverStats |->
                       [totalUsers |-> MapSize(ps),
                        activeUsers |-> activeUsers(ps, t)]]]

\* Discover sweeping the registry as it answers
DiscoverSweeps(query) ==
  /\ resp' = [op |-> "peers", req |-> query,
              status |-> DiscoverResponse(peers, query, now).status,
              json |-> DiscoverResponse(peers, query, now).json]
  /\ peers' = SweptPeers(peers, now)
  /\ requestedAt' = Forget(requestedAt, peers')
  /\ UNCHANGED <<connectionStats, now, nextSweep, firstJoinedAt, clientVars>>

Discover(query) ==
  /\ resp' = [op |-> "peers", req |-> query,
              status |-> DiscoverResponse(peers, query, now).status,
              json |-> DiscoverResponse(peers, query, now).json]
  /\ UNCHANGED <<peers, connectionStats, now, nextSweep, firstJoinedAt, requestedAt, clientVars>>

(***************************************************************************)
(* POST /heartbeat                                                         *)
(***************************************************************************)
E_PEER_ID_REQUIRED == "peerId is required"

\* Heartbeaten leaving lastSeen as it was
HeartbeatenKeepsLastSeen(peer, activity, t) ==
  IF Falsy(activity)
  THEN [peer EXCEPT !.status = "online"]
  ELSE [peer EXCEPT !.status = "online",
                    !.lastActivity = activity, !.lastActivityTime = Num(t)]

\* Heartbeaten leaving the stored status as it was
HeartbeatenKeepsStatus(peer, activity, t) ==
  IF Falsy(activity)
  THEN [peer EXCEPT !.lastSeen = t]
  ELSE [peer EXCEPT !.lastSeen = t,
                    !.lastActivity = activity, !.lastActivityTime = Num(t)]

\* the record after a heartbeat received at time t
Heartbeaten(peer, activity, t) ==
  IF Falsy(activity)
  THEN [peer EXCEPT !.lastSeen = t, !.status = "online"]
  ELSE [peer EXCEPT !.lastSeen = t, !.status = "online",
                    !.lastActivity = activity, !.lastActivityTime = Num(t)]

\* the handler of POST /heartbeat on the state of the server
HeartbeatHandled(body) ==
  IF Falsy(body.peerId)
  THEN /\ resp' = [op |-> "heartbeat", req |-> body, status |-> 400,
                   json |-> [error |-> E_PEER_ID_REQUIRED]]
       /\ UNCHANGED <<peers, connectionStats, now, nextSweep, firstJoinedAt,
                      requestedAt>>
  ELSE IF HasKey(peers, body.peerId)
  THEN /\ peers' = MapSet(peers, body.peerId.s,
                          Heartbeaten(MapGet(peers, body.peerId.s), body.activity, now))
       /\ resp' = [op |-> "heartbeat", req |-> body, status |-> 200,
                   json |-> [success |-> TRUE, serverTime |-> now,
                             status |-> "heartbeat_received"]]
       /\ UNCHANGED <<connectionStats, now, nextSweep, firstJoinedAt, requestedAt>>
  ELSE /\ resp' = [op |-> "heartbeat", req |-> body,
                   status |-> NotFound(E_PEER_NOT_FOUND).status,
                   json |-> NotFound(E_PEER_NOT_FOUND).json]
       /\ UNCHANGED <<peers, connectionStats, now, nextSweep, firstJoinedAt,
                      requestedAt>>

Heartbeat(body) == HeartbeatHandled(body) /\ UNCHANGED clientVars

(***************************************************************************)
(* POST /status                                                            *)
(***************************************************************************)
E_STATUS_REQUIRED == "peerId and status are required"
E_INVALID_STATUS == "Invalid status. Must be one of: online, away, busy, offline"

\* validStatuses with one more status
validStatusesAndSleeping == {"online", "away", "busy", "offline", "sleeping"}

validStatuses == {"online", "away", "busy", "offline"}

\* StatusSet putting lastSeen back to the time the peer joined
StatusSetRewinds(peer, status, t) ==
  [peer EXCEPT !.status = status, !.lastSeen = peer.joinedAt]

\* StatusSet leaving lastSeen as it was
StatusSetKeepsLastSeen(peer, status, t) == [peer EXCEPT !.status = status]

\* the record after a status update received at time t
StatusSet(peer, status, t) == [peer EXCEPT !.status = status, !.lastSeen = t]

\* SetStatus looking the peer up before it validates the status
SetStatusLooksUpFirst(body) ==
  IF Falsy(body.peerId) \/ Falsy(body.status)
  THEN /\ resp' = [op |-> "status", req |-> body, status |-> 400,
                   json |-> [error |-> E_STATUS_REQUIRED]]
       /\ UNCHANGED <<peers, connectionStats, now, nextSweep, firstJoinedAt,
                      requestedAt,
                      clientVars>>
  ELSE IF ~HasKey(peers, body.peerId)
  THEN /\ resp' = [op |-> "status", req |-> body,
                   status |-> NotFound(E_PEER_NOT_FOUND).status,
                   json |-> NotFound(E_PEER_NOT_FOUND).json]
       /\ UNCHANGED <<peers, connectionStats, now, nextSweep, firstJoinedAt,
                      requestedAt,
                      clientVars>>
  ELSE IF ~(IsString(body.status) /\ body.status.s \in validStatuses)
  THEN /\ resp' = [op |-> "status", req |-> body, status |-> 400,
                   json |-> [error |-> E_INVALID_STATUS]]
       /\ UNCHANGED <<peers, connectionStats, now, nextSweep, firstJoinedAt,
                      requestedAt,
                      clientVars>>
  ELSE /\ peers' = MapSet(peers, body.peerId.s,
                          StatusSet(MapGet(peers, body.peerId.s), body.status.s, now))
       /\ resp' = [op |-> "status", req |-> body, status |-> 200,
                   json |-> [success |-> TRUE, message |-> body.status.s]]
       /\ UNCHANGED <<connectionStats, now, nextSweep, firstJoinedAt, requestedAt, clientVars>>

SetStatus(body) ==
  IF Falsy(body.peerId) \/ Falsy(body.status)
  THEN /\ resp' = [op |-> "status", req |-> body, status |-> 400,
                   json |-> [error |-> E_STATUS_REQUIRED]]
       /\ UNCHANGED <<peers, connectionStats, now, nextSweep, firstJoinedAt,
                      requestedAt,
                      clientVars>>
  ELSE IF ~(IsString(body.status) /\ body.status.s \in validStatuses)
  THEN /\ resp' = [op |-> "status", req |-> body, status |-> 400,
                   json |-> [error |-> E_INVALID_STATUS]]
       /\ UNCHANGED <<peers, connectionStats, now, nextSweep, firstJoinedAt,
                      requestedAt,
                      clientVars>>
  ELSE IF HasKey(peers, body.peerId)
  THEN /\ peers' = MapSet(peers, body.peerId.s,
                          StatusSet(MapGet(peers, body.peerId.s), body.status.s, now))
       /\ resp' = [op |-> "status", req |-> body, status |-> 200,
                   json |-> [success |-> TRUE, message |-> body.status.s]]
       /\ UNCHANGED <<connectionStats, now, nextSweep, firstJoinedAt, requestedAt, clientVars>>
  ELSE /\ resp' = [op |-> "status", req |-> body,
                   status |-> NotFound(E_PEER_NOT_FOUND).status,
                   json |-> NotFound(E_PEER_NOT_FOUND).json]
       /\ UNCHANGED <<peers, connectionStats, now, nextSweep, firstJoinedAt,
                      requestedAt,
                      clientVars>>

(***************************************************************************)
(* GET /health                                                             *)
(***************************************************************************)
\* the users part of the response of GET /health on registry ps at time t
HealthUsers(ps, stats, t) ==
  [total |-> MapSize(ps),
   active |-> activeUsers(ps, t),
   totalConnections |-> stats.totalConnections]

Health ==
  /\ resp' = [op |-> "health", status |-> 200,
              json |-> [status |-> "healthy",
                        users |-> HealthUsers(peers, connectionStats, now)]]
  /\ UNCHANGED <<peers, connectionStats, now, nextSweep, firstJoinedAt, requestedAt, clientVars>>

(***************************************************************************)
(* setInterval(cleanupOldPeers, 3 * 60 * 1000) and the clock.              *)
(***************************************************************************)
\* the timer runs cleanupOldPeers when it is due
Sweep ==
  /\ now = nextSweep
  /\ LET swept == cleanupOldPeers(peers, connectionStats, now)
     IN /\ peers' = swept.peers
        /\ connectionStats' = swept.stats
        /\ requestedAt' = Forget(requestedAt, swept.peers)
  /\ nextSweep' = now + SWEEP_INTERVAL
  /\ resp' = [op |-> "sweep"]
  /\ UNCHANGED <<now, firstJoinedAt, clientVars>>

\* time passes, up to the moment the timer is due
Tick(t) ==
  /\ t > now
  /\ t <= nextSweep
  /\ now' = t
  /\ resp' = [op |-> "tick"]
  /\ UNCHANGED <<peers, connectionStats, nextSweep, firstJoinedAt, requestedAt, clientVars>>

(***************************************************************************)
(* Bounded inputs.                                                         *)
(***************************************************************************)
\* how many periods of the sweep timer the clock runs for
MaxPeriods == 3

P1 == "peer-alice-01"
P2 == "peer-bobby-02"
P3 == "peer-carol-03"
P4 == "peer-david-04"
PeerIds == {P1, P2}

Alice == <<"A", "l", "i", "c", "e">>
alice == <<"a", "l", "i", "c", "e">>
Bobby == <<"B", "o", "b">>
Carol == <<"C", "a", "r", "o", "l">>
David == <<"D", "a", "v", "i", "d">>
PaddedAlice == <<" ", "a", "l", "i", "c", "e", " ">>
TooShort == <<" ", "A", "l", " ">>
BadChars == <<"A", "l", "!", "c", "e">>
ShortBadChars == <<"A", "!">>
TooLong == <<"a", "b", "c", "d", "e", "f", "g", "h", "i", "j", "k",
             "l", "m", "n", "o", "p", "q", "r", "s", "t", "u">>

\* latitudes in 1e-7 degree: 0.0089934 degree is 1000.02 m north of the
\* origin and is stored as 0.008993 degree, 999.98 m north of it
Origin == Obj(Num(0), Num(0))
NearOrigin == Obj(Num(4), Num(0))
JustInside == Obj(Num(89930), Num(0))
JustOutside == Obj(Num(89934), Num(0))
FarAway == Obj(Num(150000), Num(0))
FarAwayNear == Obj(Num(150004), Num(0))
\* 1.000 m, 79.949 m, 160.009 m, 249.966 m and 5999.965 m north of the origin
OneMetre == Obj(Num(90), Num(0))
EightyMetres == Obj(Num(7190), Num(0))
HundredSixtyMetres == Obj(Num(14390), Num(0))
TwoHundredFiftyMetres == Obj(Num(22480), Num(0))
SixKilometres == Obj(Num(539590), Num(0))

Body(id, name, loc, avatar) ==
  [peerId |-> id, username |-> name, avatar |-> avatar, location |-> loc]

\* the instants the clock shows: every run of the timer, and the moments
\* around the staleness timeout of a record last seen at the start
Instants ==
  {StartTime + k * SWEEP_INTERVAL : k \in 0..MaxPeriods}
  \cup {StartTime + o : o \in {o \in {1, PEER_TIMEOUT, PEER_TIMEOUT + 1} :
                                 o <= MaxPeriods * SWEEP_INTERVAL}}

\* the LetTalkyApp after construction: no peer, no timer, nothing sent
InitClient ==
  /\ app = [reconnectAttempts |-> 0, peerOpen |-> FALSE, peerDisconnected |-> FALSE,
            listening |-> FALSE, heartbeatInterval |-> 0]
  /\ pending = [register |-> "none", heartbeats |-> 0, reconnections |-> 0]
  /\ attemptsSinceOpen = 0

Init ==
  /\ peers = <<>>
  /\ connectionStats = [totalConnections |-> 0, activeUsers |-> 0,
                        messagesExchanged |-> 0]
  /\ now = StartTime
  /\ nextSweep = StartTime + SWEEP_INTERVAL
  /\ resp = [op |-> "init"]
  /\ firstJoinedAt = [id \in PeerIds |-> 0]
  /\ requestedAt = [id \in PeerIds |-> Undef]
  /\ InitClient

(***************************************************************************)
(* Spec: the life of records over time.  Two peers register, re-register,  *)
(* send heartbeats and status updates and query while the clock runs past  *)
(* the staleness timeout and the timer sweeps.                             *)
(***************************************************************************)
RegisterBodies ==
  {Body(Str(P1), Chars(Alice), Origin, Str("A1")),
   Body(Str(P1), Chars(Alice), FarAwayNear, Str("B2")),
   Body(Str(P2), Chars(PaddedAlice), NearOrigin, Str("A1")),
   Body(Str(P1), Chars(TooShort), Origin, Str("A1"))}

HeartbeatBodies == {[peerId |-> Str(id), activity |-> Undef] : id \in PeerIds}

StatusBodies ==
  {[peerId |-> Str(P1), status |-> Str("busy")]}

Queries == {[peerId |-> Str(id), range |-> Undef] : id \in PeerIds}

Next ==
  \/ \E body \in RegisterBodies : Register(body)
  \/ \E query \in Queries : Discover(query)
  \/ \E body \in HeartbeatBodies : Heartbeat(body)
  \/ \E body \in StatusBodies : SetStatus(body)
  \/ Sweep
  \/ \E t \in Instants : Tick(t)

Spec == Init /\ [][Next]_vars

(***************************************************************************)
(* SpecUniq: the uniqueness of usernames.  Two peers register and          *)
(* re-register under names that differ in case only, at points around the  *)
(* 1000 m radius, until the timer first runs.                              *)
(***************************************************************************)
UniqBodies ==
  {Body(Str(P1), Chars(name), loc, Str("A1")) :
     name \in {Alice, Bobby}, loc \in {NearOrigin, FarAway}}
  \cup {Body(Str(P2), Chars(name), loc, Str("A1")) :
          name \in {PaddedAlice, Bobby}, loc \in {JustInside, JustOutside, FarAway}}

UniqHeartbeatBodies == {[peerId |-> Str(P2), activity |-> Undef]}

UniqStatusBodies == {[peerId |-> Str(P1), status |-> Str("away")]}

UniqInstants == {StartTime + SWEEP_INTERVAL}

NextUniq ==
  \/ \E body \in UniqBodies : Register(body)
  \/ \E body \in UniqHeartbeatBodies : Heartbeat(body)
  \/ \E body \in UniqStatusBodies : SetStatus(body)
  \/ Sweep
  \/ \E t \in UniqInstants : Tick(t)

SpecUniq == Init /\ [][NextUniq]_vars

(***************************************************************************)
(* SpecValidate: the validation of Register.  Bodies with every mix of     *)
(* well-formed and ill-formed fields arrive at a registry that may hold a  *)
(* record of the same name.                                                *)
(***************************************************************************)
ValidateBodies ==
  {Body(id, name, loc, avatar) :
     id \in {Str(P2), Str("short"), Num(7), Undef},
     name \in {Chars(alice), Undef, Num(42), Chars(<<>>), Chars(TooShort),
               Chars(BadChars), Chars(ShortBadChars), Chars(TooLong)},
     loc \in {Origin, Undef, Obj(Undef, Num(0)), Obj(Num(0), Num(-1810000000))},
     avatar \in {Str("A1"), Str(""), Str("ABCDEFGHIJK"), Num(3)}}
  \cup {Body(Str(P1), Chars(Alice), Origin, Str("A1"))}

NextValidate == \E body \in ValidateBodies : Register(body)

SpecValidate == Init /\ [][NextValidate]_vars

(***************************************************************************)
(* SpecLive: the timer keeps firing and the clock keeps running.  Peers    *)
(* register, refresh or fall silent while the timer runs one period past   *)
(* the staleness timeout of every record it is due to remove.              *)
(***************************************************************************)
LastSweep == StartTime + (MaxPeriods + 1) * SWEEP_INTERVAL

\* every run of the timer, and the moment a record is last seen at to be
\* aged exactly PEER_TIMEOUT when the timer runs
LiveInstants ==
  {StartTime + k * SWEEP_INTERVAL : k \in 0..(MaxPeriods + 1)}
  \cup {StartTime + SWEEP_INTERVAL - (PEER_TIMEOUT % SWEEP_INTERVAL)}

LiveRegisterBodies ==
  {Body(Str(P1), Chars(Alice), Origin, Str("A1")),
   Body(Str(P2), Chars(Bobby), FarAway, Str("B2"))}

LiveHeartbeatBodies == {[peerId |-> Str(P1), activity |-> Undef]}

LiveStatusBodies == {[peerId |-> Str(P2), status |-> Str("away")]}

LiveQueries == {[peerId |-> Str(P1), range |-> Undef]}

NextLive ==
  \/ \E body \in LiveRegisterBodies : Register(body)
  \/ \E query \in LiveQueries : Discover(query)
  \/ \E body \in LiveHeartbeatBodies : Heartbeat(body)
  \/ \E body \in LiveStatusBodies : SetStatus(body)
  \/ Sweep
  \/ \E t \in LiveInstants : Tick(t)

\* the timer fires when it is due, and time does not stop
SpecLive ==
  /\ Init
  /\ [][NextLive]_vars
  /\ WF_vars(Sweep)
  /\ WF_vars(\E t \in LiveInstants : Tick(t))

(***************************************************************************)
(* SpecRange: the search range of Discover.  Three peers, one metre and    *)
(* six kilometres apart, register and query with ranges of every shape     *)
(* while the clock runs past the staleness timeout.                        *)
(***************************************************************************)
RangeBodies ==
  {Body(Str(P1), Chars(Alice), Origin, Str("A1")),
   Body(Str(P2), Chars(Bobby), OneMetre, Str("A1")),
   Body(Str(P3), Chars(Carol), SixKilometres, Str("A1"))}

Ranges ==
  {Undef,
   Chars(<<"1">>),
   Chars(<<"0">>),
   Chars(<<"a", "b", "c">>),
   Chars(<<"9", "9", "9", "9", "9", "9">>),
   Chars(<<"1", "2", ".", "7">>),
   Chars(<<"-", "5">>),
   Chars(<<" ", "0", "x", "1", "F">>)}

RangeQueries == {[peerId |-> Str(P1), range |-> range] : range \in Ranges}

RangeInstants == {StartTime + k * SWEEP_INTERVAL : k \in 0..MaxPeriods}

\* a peer without a record registers
NextRange ==
  \/ \E body \in RangeBodies : ~MapHas(peers, body.peerId.s) /\ Register(body)
  \/ \E query \in RangeQueries : Discover(query)
  \/ Sweep
  \/ \E t \in RangeInstants : Tick(t)

SpecRange == Init /\ [][NextRange]_vars

(***************************************************************************)
(* SpecRank: the ranking of Discover.  Three peers 1 m, 80 m and 160 m or  *)
(* 250 m from the requester register at different moments, one refreshes   *)
(* its record with Set Status, and the requester queries as they turn from *)
(* online to away to inactive.                                             *)
(***************************************************************************)
RankBodies ==
  {Body(Str(P1), Chars(Alice), Origin, Str("A1")),
   Body(Str(P2), Chars(Bobby), OneMetre, Str("A1")),
   Body(Str(P3), Chars(Carol), EightyMetres, Str("A1")),
   Body(Str(P4), Chars(David), HundredSixtyMetres, Str("A1")),
   Body(Str(P4), Chars(David), TwoHundredFiftyMetres, Str("A1"))}

RankStatusBodies ==
  {[peerId |-> Str(P2), status |-> Str(status)] : status \in {"busy", "offline"}}

RankQueries == {[peerId |-> Str(P1), range |-> Undef]}

RankInstants == {StartTime + 1, StartTime + ONLINE_WINDOW, StartTime + ACTIVE_WINDOW}

\* a peer without a record registers
NextRank ==
  \/ \E body \in RankBodies : ~MapHas(peers, body.peerId.s) /\ Register(body)
  \/ \E query \in RankQueries : Discover(query)
  \/ \E body \in RankStatusBodies : SetStatus(body)
  \/ \E t \in RankInstants : Tick(t)

SpecRank == Init /\ [][NextRank]_vars

(***************************************************************************)
(* SpecMany: a crowded registry.  A requester and up to                    *)
(* MAX_PEERS_PER_USER + MaxExtra peers register, one after the other, at   *)
(* places 101 m apart along a meridian, in an order that is not the order  *)
(* of their latitudes; peers among them query with ranges that match some  *)
(* or all of the others.                                                   *)
(***************************************************************************)
\* how many peers more than a result may list the registry holds
MaxExtra == 50

DigitChars == <<"0", "1", "2", "3", "4", "5", "6", "7", "8", "9">>

ManyId(i) == "peer-many-" \o ToString(i)

ManyName(i) ==
  <<"u", "s", "e", "r", DigitChars[((i \div 100) % 10) + 1],
    DigitChars[((i \div 10) % 10) + 1], DigitChars[(i % 10) + 1]>>

\* the i-th peer to register, the requester first, at the origin; 0.00091
\* degree, 101.19 m, between neighbours
ManyBody(i) ==
  Body(Str(ManyId(i)), Chars(ManyName(i)),
       Obj(Num(((i * 37) % (MAX_PEERS_PER_USER + MaxExtra + 1)) * 9100), Num(0)),
       Str("A1"))

ManyRanges ==
  {Undef,
   Chars(<<"1", "0", "2", "0", "0">>),
   Chars(<<"9", "9", "9", "9", "9", "9">>)}

\* the requester at the end of the row, with every range, and a peer
\* inside the row, which has others equally far on both sides
ManyQueries ==
  {[peerId |-> Str(ManyId(0)), range |-> range] : range \in ManyRanges}
  \cup {[peerId |-> Str(ManyId(3)), range |-> Chars(<<"9", "9", "9", "9", "9", "9">>)]}

\* the peers register one after the other
NextMany ==
  \/ /\ Len(peers) <= MAX_PEERS_PER_USER + MaxExtra
     /\ Register(ManyBody(Len(peers)))
  \/ \E query \in ManyQueries : Discover(query)

SpecMany == Init /\ [][NextMany]_vars

(***************************************************************************)
(* SpecFrame: what each request changes.  Two peers register, send         *)
(* heartbeats with and without an activity and status updates with valid   *)
(* and invalid statuses, query and ask for the health of the server while  *)
(* records turn inactive and stale and the timer sweeps.                   *)
(***************************************************************************)
FrameBodies ==
  {Body(Str(P1), Chars(Alice), Origin, Str("A1")),
   Body(Str(P2), Chars(Bobby), NearOrigin, Str("B2"))}

FrameHeartbeatBodies ==
  {[peerId |-> Str(P1), activity |-> activity] : activity \in {Undef, Str("typing")}}

FrameStatusBodies ==
  {[peerId |-> Str(P1), status |-> status] :
     status \in {Str("away"), Str("offline"), Str("sleeping"), Num(1), Undef}}

FrameQueries == {[peerId |-> Str(P1), range |-> Undef]}

FrameInstants ==
  {StartTime + k * SWEEP_INTERVAL : k \in 0..MaxPeriods}
  \cup {StartTime + 1, StartTime + ACTIVE_WINDOW}

\* a peer without a record registers
NextFrame ==
  \/ \E body \in FrameBodies : ~MapHas(peers, body.peerId.s) /\ Register(body)
  \/ \E query \in FrameQueries : Discover(query)
  \/ \E body \in FrameHeartbeatBodies : Heartbeat(body)
  \/ \E body \in FrameStatusBodies : SetStatus(body)
  \/ Health
  \/ Sweep
  \/ \E t \in FrameInstants : Tick(t)

SpecFrame == Init /\ [][NextFrame]_vars

(***************************************************************************)
(* Properties.                                                             *)
(***************************************************************************)
Metres(m) == m * 1000
Age(peer) == now - peer.lastSeen
IsStale(peer) == Age(peer) > PEER_TIMEOUT
SameName(a, b) == toLowerCase(a) = toLowerCase(b)
RegisterAnswered == resp.op = "register"
RegisterSucceeded == resp.op = "register" /\ resp.status = 200

\* C1: no two records of distinct peerIds have usernames equal ignoring
\* case and stored locations within 1000 m of each other.
C1_UniqueNearbyUsernames ==
  \A i, j \in DOMAIN peers :
    (peers[i].peerId # peers[j].peerId /\ SameName(peers[i].username, peers[j].username))
      => ~(calculateDistance(peers[i].location, peers[j].location)
             <= Metres(USERNAME_RADIUS))

\* the records of other peerIds that hold the name a Register body asks for
SameNamed(ps, body) ==
  {i \in DOMAIN ps : /\ ps[i].peerId # body.peerId.s
                     /\ SameName(ps[i].username, trim(body.username.cs))}

\* C2: an otherwise valid Register of B under a name that a record of
\* another peerId A holds fails with UsernameTaken (409) when B's location
\* is within 1000 m of A's stored location, and succeeds when it is beyond
\* 1000 m of every record of that name.
C2_TakenWithinRadius ==
  [][(resp'.op = "register" /\ resp'.req \in UniqBodies) =>
       LET body == resp'.req
           named == SameNamed(peers, body)
       IN /\ (\E i \in named :
                calculateDistance(peers[i].location, body.location)
                  < Metres(USERNAME_RADIUS))
               => (resp'.status = 409 /\ resp'.json.error = E_USERNAME_TAKEN)
          /\ (\A i \in named :
                calculateDistance(peers[i].location, body.location)
                  > Metres(USERNAME_RADIUS))
               => resp'.status = 200]_vars

\* a Register was refused for a record of another peerId that holds the
\* name in another case, less than 1000 m away
C2_Witness ==
  /\ RegisterAnswered
  /\ resp.status = 409
  /\ resp.req \in UniqBodies
  /\ \E i \in SameNamed(peers, resp.req) :
       /\ peers[i].username # trim(resp.req.username.cs)
       /\ calculateDistance(peers[i].location, resp.req.location)
            < Metres(USERNAME_RADIUS)

\* C3: two Register requests from distinct peerIds, under the same name
\* ignoring case and at locations within 1000 m of each other, never both
\* succeed: no two records of the registry come from such requests.
C3_NeverBothSucceed ==
  \A i, j \in DOMAIN peers :
    (peers[i].peerId # peers[j].peerId /\ SameName(peers[i].username, peers[j].username))
      => ~(calculateDistance(requestedAt[peers[i].peerId], requestedAt[peers[j].peerId])
             < Metres(USERNAME_RADIUS))

\* the checks of Register as the specification numbers them
CheckViolated(k, ps, body) ==
  CASE k = 1 -> ~(IsString(body.peerId) /\ StrLen(body.peerId) >= 10)
    [] k = 2 -> ~(IsString(body.username) /\ StrLen(body.username) > 0)
    [] k = 3 -> ~(Len(trim(body.username.cs)) \in 3..20)
    [] k = 4 -> \E i \in DOMAIN trim(body.username.cs) :
                  trim(body.username.cs)[i] \notin UsernameChars
    [] k = 5 -> ~(/\ body.location.t = "object"
                  /\ body.location.latitude.t = "number"
                  /\ body.location.longitude.t = "number"
                  /\ body.location.latitude.n \in (0 - MAX_LATITUDE)..MAX_LATITUDE
                  /\ body.location.longitude.n \in (0 - MAX_LONGITUDE)..MAX_LONGITUDE)
    [] k = 6 -> ~(IsString(body.avatar) /\ StrLen(body.avatar) \in 1..10)
    [] k = 7 -> \E i \in SameNamed(ps, body) :
                  calculateDistance(ps[i].location, body.location)
                    < Metres(USERNAME_RADIUS)

\* the error of each check
CheckErrors(k) ==
  CASE k = 1 -> {E_PEER_ID}
    [] k = 2 -> {E_USERNAME_REQUIRED}
    [] k = 3 -> {E_USERNAME_LENGTH}
    [] k = 4 -> {E_USERNAME_CHARS}
    [] k = 5 -> {E_LOCATION_REQUIRED, E_COORDINATES}
    [] k = 6 -> {E_AVATAR}
    [] k = 7 -> {E_USERNAME_TAKEN}

RECURSIVE FirstViolated(_, _, _)
\* the earliest check from k on that the body violates, 0 when it passes all
FirstViolated(k, ps, body) ==
  IF k > 7 THEN 0
  ELSE IF CheckViolated(k, ps, body) THEN k
  ELSE FirstViolated(k + 1, ps, body)

\* C4: Register checks peerId, username presence, trimmed length, character
\* class, location, avatar and uniqueness in this order, and the error it
\* returns is the one of the earliest check the input violates.
C4_EarliestViolationReported ==
  [][resp'.op = "register" =>
       LET k == FirstViolated(1, peers, resp'.req)
       IN IF k = 0
          THEN resp'.status = 200
          ELSE resp'.status # 200 /\ resp'.json.error \in CheckErrors(k)]_vars

\* a body that violates the length, character, location and avatar checks
\* was answered
C4_Witness ==
  /\ RegisterAnswered
  /\ resp.req.peerId = Str(P2)
  /\ resp.req.username = Chars(ShortBadChars)
  /\ resp.req.location = Undef
  /\ resp.req.avatar = Str("")
  /\ resp.json.error = E_USERNAME_LENGTH

\* C5: a rejected Register leaves the registry as it was: no record is
\* created, modified, refreshed or evicted, and no counter moves.
C5_RejectedRegisterChangesNothing ==
  [][(resp'.op = "register" /\ resp'.status # 200) =>
       (peers' = peers /\ connectionStats' = connectionStats)]_vars

\* a Register was rejected while the registry held a stale record
C5_Witness ==
  /\ RegisterAnswered
  /\ resp.status \in {400, 409}
  /\ \E i \in DOMAIN peers : IsStale(peers[i])

\* a successful Register of a peerId that had a record
ReRegistered(id) ==
  /\ resp'.op = "register"
  /\ resp'.status = 200
  /\ resp'.req.peerId = Str(id)
  /\ MapHas(peers, id)

\* C6 as claimed: a successful Register of a peerId that has a record
\* keeps joinedAt, messageCount and connectionsCount and sets lastSeen to
\* the current time and location and avatar to the values supplied.
C6_ReRegisterStoresSupplied ==
  [][\A id \in PeerIds : ReRegistered(id) =>
       LET old == MapGet(peers, id)
           new == MapGet(peers', id)
           body == resp'.req
       IN /\ MapHas(peers', id)
          /\ new.joinedAt = old.joinedAt
          /\ new.messageCount = old.messageCount
          /\ new.connectionsCount = old.connectionsCount
          /\ new.lastSeen = now
          /\ new.avatar = body.avatar.s
          /\ new.location.latitude = body.location.latitude
          /\ new.location.longitude = body.location.longitude]_vars

\* x is c rounded to 6 decimals: the multiple of 1e-6 degree nearest to c
RoundedTo6(x, c) == x % 10 = 0 /\ Abs(x - c) <= 5

\* C6 as amended: the same, with the location set to the supplied latitude
\* and longitude rounded to 6 decimals.
C6_ReRegisterKeepsJoinedAt ==
  [][\A id \in PeerIds : ReRegistered(id) =>
       LET old == MapGet(peers, id)
           new == MapGet(peers', id)
           body == resp'.req
       IN /\ MapHas(peers', id)
          /\ new.joinedAt = old.joinedAt
          /\ new.messageCount = old.messageCount
          /\ new.connectionsCount = old.connectionsCount
          /\ new.lastSeen = now
          /\ new.avatar = body.avatar.s
          /\ RoundedTo6(new.location.latitude.n, body.location.latitude.n)
          /\ RoundedTo6(new.location.longitude.n, body.location.longitude.n)]_vars

\* a peerId that joined earlier registered again, with another avatar at
\* another place
C6_Witness ==
  /\ RegisterSucceeded
  /\ resp.req.avatar = Str("B2")
  /\ resp.req.location = FarAwayNear
  /\ \E i \in DOMAIN peers : /\ Str(peers[i].peerId) = resp.req.peerId
                             /\ peers[i].joinedAt < peers[i].lastSeen
                             /\ peers[i].lastSeen = now
                             /\ peers[i].avatar = "B2"

\* C7 as claimed: once the first registration of a peerId has set joinedAt,
\* no record of that peerId ever has another joinedAt.
C7_JoinedAtNeverChanges ==
  \A i \in DOMAIN peers : peers[i].joinedAt = firstJoinedAt[peers[i].peerId]

\* C7 as amended: joinedAt of a peerId's record does not change for as long
\* as the record stays in the registry, and the record that a registration
\* creates after an eviction has a joinedAt later than the first, never an
\* earlier one.
C7_JoinedAtStableWhileStored ==
  [][\A id \in PeerIds :
       /\ (MapHas(peers, id) /\ MapHas(peers', id))
            => MapGet(peers', id).joinedAt = MapGet(peers, id).joinedAt
       /\ MapHas(peers', id)
            => MapGet(peers', id).joinedAt >= firstJoinedAt'[id]
       /\ (~MapHas(peers, id) /\ MapHas(peers', id) /\ firstJoinedAt[id] # 0)
            => MapGet(peers', id).joinedAt > firstJoinedAt[id]]_vars

\* a peerId evicted and registered anew has registered once more
C7_Witness ==
  /\ RegisterSucceeded
  /\ \E i \in DOMAIN peers : /\ Str(peers[i].peerId) = resp.req.peerId
                             /\ peers[i].joinedAt > firstJoinedAt[peers[i].peerId]
                             /\ peers[i].lastSeen > peers[i].joinedAt

\* C8 as claimed: the registry never holds a record older than the
\* staleness timeout.
C8_NoStaleRecordEver == \A i \in DOMAIN peers : ~IsStale(peers[i])

\* a sweep has just run: the timer's, or the one of a successful Register
JustSwept == resp.op = "sweep" \/ RegisterSucceeded

\* C8 as amended: a record older than the staleness timeout is removed by
\* the next eviction sweep, not at once: the registry holds no such record
\* right after a sweep, and may hold one between sweeps.
C8_NoStaleRecordAfterSweep ==
  JustSwept => \A i \in DOMAIN peers : ~IsStale(peers[i])

\* the timer's sweep has removed a record and kept another
C8_Witness ==
  /\ resp.op = "sweep"
  /\ peers # <<>>
  /\ \E id \in PeerIds : firstJoinedAt[id] # 0 /\ ~MapHas(peers, id)

\* the records of a registry, as a set
Records(ps) == {ps[i] : i \in DOMAIN ps}

\* C9: right after an eviction sweep at time now the registry holds exactly
\* the records it held before whose age is at most 8 minutes, unchanged; a
\* record aged exactly 8 minutes is kept.  For the sweep of a successful
\* Register the registry before the sweep holds the registrant's new record.
C9_SweepKeepsExactlyFresh ==
  [][/\ resp'.op = "sweep" =>
          Records(peers') = {p \in Records(peers) : now' - p.lastSeen <= PEER_TIMEOUT}
     /\ (resp'.op = "register" /\ resp'.status = 200) =>
          LET id == resp'.req.peerId.s
              others == {p \in Records(peers) : p.peerId # id}
          IN {p \in Records(peers') : p.peerId # id}
               = {p \in others : now' - p.lastSeen <= PEER_TIMEOUT}]_vars

\* a sweep kept a record aged exactly 8 minutes
C9_Witness ==
  /\ JustSwept
  /\ \E i \in DOMAIN peers : Age(peers[i]) = PEER_TIMEOUT

\* C10: a Discover response holds no peer whose age at the time of the
\* query exceeds 8 minutes, swept or not.
C10_DiscoverSkipsStale ==
  (resp.op = "peers" /\ resp.status = 200) =>
    \A k \in DOMAIN resp.json.peers :
      \E i \in DOMAIN peers : /\ peers[i].peerId = resp.json.peers[k].peerId
                              /\ resp.json.timestamp - peers[i].lastSeen <= PEER_TIMEOUT

\* Discover answered while the registry held a stale record of another
\* peerId within the range searched
C10_Witness ==
  /\ resp.op = "peers"
  /\ resp.status = 200
  /\ \E i, j \in DOMAIN peers :
       /\ peers[j].peerId = resp.req.peerId.s
       /\ peers[i].peerId # peers[j].peerId
       /\ IsStale(peers[i])
       /\ calculateDistance(peers[j].location, peers[i].location)
            <= Metres(resp.json.searchRange)

\* the record of id is in the registry, last seen at time l
StoredSeenAt(id, l) == MapHas(peers, id) /\ MapGet(peers, id).lastSeen = l

\* C11: a record that is not refreshed by a Register, Heartbeat or Set
\* Status request of its peer is eventually removed while the timer keeps
\* firing, whatever the other peers do, and no record is ever in the
\* registry more than 8 minutes plus one sweep interval after its lastSeen.
C11_SilentPeerRemoved ==
  /\ \A id \in PeerIds :
       \A l \in {t \in LiveInstants : t + PEER_TIMEOUT < LastSweep} :
         StoredSeenAt(id, l) ~> ~StoredSeenAt(id, l)
  /\ [](\A i \in DOMAIN peers : Age(peers[i]) <= PEER_TIMEOUT + SWEEP_INTERVAL)

\* the timer has removed the only record ever registered, and no other
\* peer ever registered
C11_Witness ==
  /\ resp.op = "sweep"
  /\ now = LastSweep
  /\ peers = <<>>
  /\ firstJoinedAt[P1] = StartTime + SWEEP_INTERVAL - (PEER_TIMEOUT % SWEEP_INTERVAL)
  /\ firstJoinedAt[P2] = 0

\* C12: no step removes a record whose age at that moment is at most the
\* staleness timeout, so a record refreshed at least that often is never
\* removed, whatever sweeps and requests are interleaved.
C12_FreshRecordNeverRemoved ==
  [][\A i \in DOMAIN peers :
       now - peers[i].lastSeen <= PEER_TIMEOUT => MapHas(peers', peers[i].peerId)]_vars

\* the timer has just swept and kept a record aged exactly the timeout and
\* a record that joined longer ago than the timeout and was refreshed since
C12_Witness ==
  /\ resp.op = "sweep"
  /\ \E i \in DOMAIN peers : Age(peers[i]) = PEER_TIMEOUT
  /\ \E i \in DOMAIN peers :
       /\ now - peers[i].joinedAt > PEER_TIMEOUT
       /\ Age(peers[i]) < PEER_TIMEOUT

\* the request just answered names a peerId the registry had no record of
AnsweredUnknownPeer ==
  /\ resp'.op \in {"peers", "heartbeat", "status"}
  /\ IsString(resp'.req.peerId)
  /\ resp'.req.peerId.s # ""
  /\ ~MapHas(peers, resp'.req.peerId.s)
  /\ resp'.op = "status" => /\ IsString(resp'.req.status)
                            /\ resp'.req.status.s \in validStatuses

\* C13: Discover, Heartbeat and Set Status with a valid status, for a
\* peerId without a record, fail with PeerNotFound and leave the registry
\* as it was: none of them creates a record.
C13_UnknownPeerNotFound ==
  [][AnsweredUnknownPeer =>
       /\ resp'.status = 404
       /\ resp'.json.error \in {E_PEER_NOT_FOUND, E_REGISTER_FIRST}
       /\ peers' = peers
       /\ connectionStats' = connectionStats]_vars

\* a heartbeat of a peer that was registered and has been evicted is
\* answered PeerNotFound while another record is stored
C13_Witness ==
  /\ resp.op = "heartbeat"
  /\ resp.status = 404
  /\ firstJoinedAt[resp.req.peerId.s] # 0
  /\ ~MapHas(peers, resp.req.peerId.s)
  /\ peers # <<>>

\* C14: Discover is read-only: it removes no record, stale ones included,
\* and changes no field of any record, the requester's lastSeen included.
C14_DiscoverReadOnly ==
  [][resp'.op = "peers" =>
       /\ peers' = peers
       /\ connectionStats' = connectionStats
       /\ now' = now]_vars

\* a Discover has been answered while a stale record is still stored and
\* the requester was last seen before the query
C14_Witness ==
  /\ resp.op = "peers"
  /\ resp.status = 200
  /\ \E i \in DOMAIN peers :
       /\ peers[i].peerId # resp.req.peerId.s
       /\ IsStale(peers[i])
  /\ MapGet(peers, resp.req.peerId.s).lastSeen < now

DiscoverSucceeded == resp.op = "peers" /\ resp.status = 200

\* the records a Discover of requester id with range metres is to match:
\* every other record seen within the timeout and no farther than range
Matching(id, range) ==
  {i \in DOMAIN peers :
     /\ peers[i].peerId # id
     /\ now - peers[i].lastSeen <= PEER_TIMEOUT
     /\ calculateDistance(MapGet(peers, id).location, peers[i].location)
          <= Metres(range)}

\* C15: the peers matched by a Discover of a registered requester are
\* exactly the other records with now - lastSeen <= 8 minutes and distance
\* to the requester <= the effective range, total is their number, and the
\* requester is never among them.
C15_MatchedExactly ==
  DiscoverSucceeded =>
    LET id == resp.req.peerId.s
        found == resp.json.peers
        matching == Matching(id, resp.json.searchRange)
    IN /\ resp.json.total = Cardinality(matching)
       /\ Len(found) = Cardinality(matching)
       /\ {found[k].peerId : k \in DOMAIN found} = {peers[i].peerId : i \in matching}
       /\ \A k \in DOMAIN found : found[k].peerId # id

\* a Discover with range 1 has matched the record exactly 1 m from the
\* requester, and neither the requester nor the record 6 km away, while a
\* stale record is stored
C15_Witness ==
  /\ DiscoverSucceeded
  /\ resp.json.searchRange = 1
  /\ resp.json.total = 1
  /\ \E i \in DOMAIN peers :
       /\ peers[i].peerId = resp.json.peers[1].peerId
       /\ calculateDistance(MapGet(peers, resp.req.peerId.s).location,
                            peers[i].location) = Metres(1)
  /\ Len(peers) = 3
  /\ \E i \in DOMAIN peers : IsStale(peers[i])

IsDigits(cs) == cs # <<>> /\ \A i \in DOMAIN cs : cs[i] \in Digits

\* the number a string of decimal digits with an optional minus sign writes
IntegerWritten(cs) ==
  IF Head(cs) = "-" THEN 0 - DigitsValue(Tail(cs), 0) ELSE DigitsValue(cs, 0)

\* a range written as a decimal integer, with an optional minus sign
IsIntegerRange(range) ==
  /\ range.t = "string"
  /\ range.cs # <<>>
  /\ IsDigits(IF Head(range.cs) = "-" THEN Tail(range.cs) ELSE range.cs)

\* a range with no digit in it at all
IsWordRange(range) ==
  /\ range.t = "string"
  /\ \A i \in DOMAIN range.cs : range.cs[i] \notin Digits

\* C20 as claimed: the effective range is min(requested, 50000) for a
\* numeric range and 5000 for a missing or non-numeric one.
C20_RangeClampedAsClaimed ==
  DiscoverSucceeded =>
    LET range == resp.req.range
    IN /\ IsIntegerRange(range) =>
            resp.json.searchRange = Min(IntegerWritten(range.cs), MAX_RANGE)
       /\ (range.t = "undefined" \/ IsWordRange(range)) =>
            resp.json.searchRange = DEFAULT_RANGE

\* the digits a string starts with
LeadingDigits(cs) ==
  SubSeq(cs, 1, CHOOSE k \in 0..Len(cs) :
                  /\ \A i \in 1..k : cs[i] \in Digits
                  /\ k < Len(cs) => cs[k + 1] \notin Digits)

\* the integer a range starts with, after leading blanks: an optional sign,
\* then decimal digits, or 0x and hexadecimal digits; 0 when there is none
LeadingInteger(range) ==
  IF range.t # "string" THEN 0
  ELSE LET s == TrimStart(range.cs)
           negative == s # <<>> /\ Head(s) = "-"
           u == IF s # <<>> /\ Head(s) \in {"-", "+"} THEN Tail(s) ELSE s
           n == IF Len(u) >= 2 /\ u[1] = "0" /\ u[2] \in {"x", "X"}
                THEN HexDigitsValue(SubSeq(u, 3, Len(u)), 0)
                ELSE IF LeadingDigits(u) = <<>> THEN 0
                ELSE DigitsValue(LeadingDigits(u), 0)
       IN IF negative THEN 0 - n ELSE n

\* C20 as amended: the effective range is min(n, 50000) for the integer n
\* that the range starts with when there is one and it is not 0, and 5000
\* when the range is missing, starts with no integer or starts with 0;
\* every Discover of a registered requester succeeds whatever the range.
C20_RangeFromLeadingInteger ==
  /\ DiscoverSucceeded =>
       resp.json.searchRange =
         IF LeadingInteger(resp.req.range) = 0 THEN DEFAULT_RANGE
         ELSE Min(LeadingInteger(resp.req.range), MAX_RANGE)
  /\ (resp.op = "peers" /\ HasKey(peers, resp.req.peerId)) => resp.status = 200

\* a Discover with range 999999 has been answered with range 50000 and the
\* record 6 km away, which the default range leaves out
C20_Witness ==
  /\ DiscoverSucceeded
  /\ resp.req.range = Chars(<<"9", "9", "9", "9", "9", "9">>)
  /\ resp.json.searchRange = MAX_RANGE
  /\ \E k \in DOMAIN resp.json.peers : resp.json.peers[k].distance > DEFAULT_RANGE

\* C16: every peer a Discover returns has isActive true exactly when
\* now - lastSeen < 60 s and the label 'online' exactly when
\* now - lastSeen < 30 s, else 'away', whatever its stored status: a peer
\* whose status Set Status has just set is returned as 'online' and active.
C16_LabelsFromAge ==
  DiscoverSucceeded =>
    \A k \in DOMAIN resp.json.peers :
      LET entry == resp.json.peers[k]
          stored == MapGet(peers, entry.peerId)
      IN /\ entry.isActive = (now - stored.lastSeen < ACTIVE_WINDOW)
         /\ entry.status = IF now - stored.lastSeen < ONLINE_WINDOW
                           THEN "online" ELSE "away"
         /\ (stored.status \in {"busy", "offline"} /\ stored.lastSeen = now) =>
              entry.status = "online" /\ entry.isActive

\* a Discover has returned, as 'online' and active, a peer whose stored
\* status is 'offline', together with a peer aged exactly 30 s as 'away'
C16_Witness ==
  /\ DiscoverSucceeded
  /\ \E k \in DOMAIN resp.json.peers :
       /\ MapGet(peers, resp.json.peers[k].peerId).status = "offline"
       /\ resp.json.peers[k].status = "online"
       /\ resp.json.peers[k].isActive
  /\ \E k \in DOMAIN resp.json.peers :
       /\ now - resp.json.peers[k].lastSeen = ONLINE_WINDOW
       /\ resp.json.peers[k].status = "away"
       /\ resp.json.peers[k].isActive

\* C17: in every Discover result every active peer comes before every
\* inactive one.
C17_ActiveFirst ==
  DiscoverSucceeded =>
    \A k, l \in DOMAIN resp.json.peers :
      (resp.json.peers[k].isActive /\ ~resp.json.peers[l].isActive) => k < l

\* a Discover has ranked an active peer 160 m away before an inactive peer
\* 1 m away that was stored before it
C17_Witness ==
  /\ DiscoverSucceeded
  /\ Len(resp.json.peers) = 3
  /\ resp.json.peers[1].isActive
  /\ ~resp.json.peers[3].isActive
  /\ resp.json.peers[3].distance < resp.json.peers[1].distance
  /\ peers[2].peerId = resp.json.peers[3].peerId

\* the rule of ranking for the peers at places k and l of a result
RankedPair(found, k, l) ==
  (k # l /\ found[k].isActive = found[l].isActive) =>
    /\ found[k].distance + SORT_DISTANCE_GAP < found[l].distance => k < l
    /\ (/\ Abs(found[k].distance - found[l].distance) <= SORT_DISTANCE_GAP
        /\ found[k].joinedAt > found[l].joinedAt) => k < l

\* C18 as claimed: every pair of returned peers with the same isActive is
\* ranked nearer first when the distances differ by more than 100 m, and
\* later joinedAt first when they differ by at most 100 m.
C18_EveryPairRanked ==
  DiscoverSucceeded =>
    \A k, l \in DOMAIN resp.json.peers : RankedPair(resp.json.peers, k, l)

\* among the peers of a result with the same isActive, being within 100 m
\* of distance is transitive
GapsAgree(found) ==
  \A k, l, m \in DOMAIN found :
    (/\ found[k].isActive = found[l].isActive
     /\ found[l].isActive = found[m].isActive
     /\ Abs(found[k].distance - found[l].distance) <= SORT_DISTANCE_GAP
     /\ Abs(found[l].distance - found[m].distance) <= SORT_DISTANCE_GAP)
    => Abs(found[k].distance - found[m].distance) <= SORT_DISTANCE_GAP

\* C18 as amended: the pairs are ranked so whenever no three returned
\* peers with the same isActive have distances d1, d2, d3 with d1 and d2
\* within 100 m, d2 and d3 within 100 m, and d1 and d3 more than 100 m apart.
C18_PairsRankedWhenGapsAgree ==
  (DiscoverSucceeded /\ GapsAgree(resp.json.peers)) =>
    \A k, l \in DOMAIN resp.json.peers : RankedPair(resp.json.peers, k, l)

\* a Discover has ranked three peers of the same isActive: a nearer one
\* before one more than 100 m farther that joined later, and a farther one
\* before one less than 100 m nearer that joined earlier
C18_Witness ==
  /\ DiscoverSucceeded
  /\ Len(resp.json.peers) = 3
  /\ \A k \in 1..3 : resp.json.peers[k].isActive = resp.json.peers[1].isActive
  /\ GapsAgree(resp.json.peers)
  /\ \E k, l \in 1..3 :
       /\ k < l
       /\ resp.json.peers[k].distance + SORT_DISTANCE_GAP < resp.json.peers[l].distance
       /\ resp.json.peers[k].joinedAt < resp.json.peers[l].joinedAt
  /\ \E k, l \in 1..3 :
       /\ k < l
       /\ resp.json.peers[k].distance > resp.json.peers[l].distance
       /\ resp.json.peers[k].joinedAt > resp.json.peers[l].joinedAt

\* how many of the records matching a Discover are at a rounded distance
\* below d (Nearer) and of at most d (NoFarther) from the requester
Nearer(id, range, d) ==
  Cardinality({i \in Matching(id, range) :
    RoundMetres(calculateDistance(MapGet(peers, id).location, peers[i].location)) < d})
NoFarther(id, range, d) ==
  Cardinality({i \in Matching(id, range) :
    RoundMetres(calculateDistance(MapGet(peers, id).location, peers[i].location)) <= d})

\* C19: the list a Discover returns has min(total, 100) entries, total
\* being the number of matching records, and they are the first
\* min(total, 100) of the ranking: here, of equally active peers at least
\* 101 m apart, the nearest ones, nearest first.
C19_TruncatedToFirstHundred ==
  DiscoverSucceeded =>
    LET id == resp.req.peerId.s
        range == resp.json.searchRange
        found == resp.json.peers
    IN /\ resp.json.total = Cardinality(Matching(id, range))
       /\ Len(found) = Min(resp.json.total, MAX_PEERS_PER_USER)
       /\ \A k \in DOMAIN found :
            /\ Nearer(id, range, found[k].distance) <= k - 1
            /\ NoFarther(id, range, found[k].distance) >= k

\* a Discover matching all other records of the fullest registry has
\* returned MAX_PEERS_PER_USER of them
C19_Witness ==
  /\ DiscoverSucceeded
  /\ resp.json.total = MAX_PEERS_PER_USER + MaxExtra
  /\ Len(resp.json.peers) = MAX_PEERS_PER_USER
  /\ Len(peers) = MAX_PEERS_PER_USER + MaxExtra + 1

\* the fields of a record that neither a heartbeat nor a status update sets
SameIdentity(old, new) ==
  /\ new.peerId = old.peerId
  /\ new.username = old.username
  /\ new.avatar = old.avatar
  /\ new.location = old.location
  /\ new.joinedAt = old.joinedAt
  /\ new.messageCount = old.messageCount
  /\ new.connectionsCount = old.connectionsCount

\* the step keeps every record, in place, and changes none but the one of id
OnlyRecordChanged(id) ==
  /\ Len(peers') = Len(peers)
  /\ \A i \in DOMAIN peers :
       /\ peers'[i].peerId = peers[i].peerId
       /\ peers[i].peerId # id => peers'[i] = peers[i]
  /\ connectionStats' = connectionStats

\* C21: a Heartbeat for a peerId with a record sets the record's lastSeen
\* to now and its status to 'online', and its activity tag and time when an
\* activity is supplied, and changes nothing else: no other field, no other
\* record, and no record is evicted.
C21_HeartbeatFrame ==
  [][(resp'.op = "heartbeat" /\ HasKey(peers, resp'.req.peerId)) =>
       LET id == resp'.req.peerId.s
           old == MapGet(peers, id)
           new == MapGet(peers', id)
       IN /\ resp'.status = 200
          /\ OnlyRecordChanged(id)
          /\ SameIdentity(old, new)
          /\ new.lastSeen = now
          /\ new.status = "online"
          /\ IF Falsy(resp'.req.activity)
             THEN /\ new.lastActivity = old.lastActivity
                  /\ new.lastActivityTime = old.lastActivityTime
             ELSE /\ new.lastActivity = resp'.req.activity
                  /\ new.lastActivityTime = Num(now)]_vars

\* a heartbeat with an activity has been recorded, well after the peer
\* joined, while a stale record of another peer is still stored
C21_Witness ==
  /\ resp.op = "heartbeat"
  /\ resp.status = 200
  /\ MapGet(peers, resp.req.peerId.s).lastActivity = Str("typing")
  /\ MapGet(peers, resp.req.peerId.s).lastActivityTime = Num(now)
  /\ MapGet(peers, resp.req.peerId.s).joinedAt < now
  /\ \E i \in DOMAIN peers : IsStale(peers[i])

\* the status of a Set Status request is one of the four the server accepts
StatusAccepted(status) ==
  IsString(status) /\ status.s \in {"online", "away", "busy", "offline"}

\* C22: Set Status for a peerId with a record and a status among online,
\* away, busy, offline sets the stored status to it and lastSeen to now and
\* changes no other field or record; with any other status it fails with
\* InvalidStatus and leaves the registry as it was.
C22_SetStatusFrame ==
  [][resp'.op = "status" =>
       /\ (StatusAccepted(resp'.req.status) /\ HasKey(peers, resp'.req.peerId)) =>
            LET id == resp'.req.peerId.s
                old == MapGet(peers, id)
                new == MapGet(peers', id)
            IN /\ resp'.status = 200
               /\ OnlyRecordChanged(id)
               /\ SameIdentity(old, new)
               /\ new.status = resp'.req.status.s
               /\ new.lastSeen = now
               /\ new.lastActivity = old.lastActivity
               /\ new.lastActivityTime = old.lastActivityTime
       /\ ~StatusAccepted(resp'.req.status) =>
            /\ resp'.status = 400
            /\ resp'.json.error \in {E_INVALID_STATUS, E_STATUS_REQUIRED}
            /\ peers' = peers
            /\ connectionStats' = connectionStats]_vars

\* the status 'sleeping' has been refused for a peer whose record keeps the
\* status 'offline' and the lastSeen that an earlier update gave it
C22_Witness ==
  /\ resp.op = "status"
  /\ resp.status = 400
  /\ resp.json.error = E_INVALID_STATUS
  /\ resp.req.status = Str("sleeping")
  /\ MapHas(peers, resp.req.peerId.s)
  /\ MapGet(peers, resp.req.peerId.s).status = "offline"
  /\ MapGet(peers, resp.req.peerId.s).lastSeen < now
  /\ MapGet(peers, resp.req.peerId.s).joinedAt < MapGet(peers, resp.req.peerId.s).lastSeen

\* C23: the stored status of every record is one of online, away, busy,
\* offline.
C23_StoredStatusValid ==
  \A i \in DOMAIN peers : peers[i].status \in {"online", "away", "busy", "offline"}

\* a record holds a status other than 'online' after a status that the
\* server does not accept has been refused for it
C23_Witness ==
  /\ resp.op = "status"
  /\ resp.status = 400
  /\ ~StatusAccepted(resp.req.status)
  /\ MapHas(peers, resp.req.peerId.s)
  /\ MapGet(peers, resp.req.peerId.s).status = "away"

\* the records of ps that a sweep at the present time evicts, apart from id's
StaleOthers(ps, id) == {i \in DOMAIN ps : ps[i].peerId # id /\ IsStale(ps[i])}

\* C24: a peerId identifies at most one record, and a successful Register
\* adds exactly one record when the peerId is new and none when it is
\* stored, before the records that its sweep evicts are taken away.
C24_OneRecordPerPeerId ==
  [][/\ \A i, j \in DOMAIN peers' : peers'[i].peerId = peers'[j].peerId => i = j
     /\ (resp'.op = "register" /\ resp'.status = 200) =>
          LET id == resp'.req.peerId.s
              added == IF MapHas(peers, id) THEN 0 ELSE 1
          IN /\ MapHas(peers', id)
             /\ MapGet(peers', id).peerId = id
             /\ Len(peers') + Cardinality(StaleOthers(peers, id)) = Len(peers) + added
             /\ MapKeys(peers') =
                  {id} \cup {peers[i].peerId : i \in DOMAIN peers \ StaleOthers(peers, id)}]_vars

\* a peer has registered again while another peer's record is stored
C24_Witness ==
  /\ RegisterSucceeded
  /\ Len(peers) = 2
  /\ MapGet(peers, resp.req.peerId.s).joinedAt < now
  /\ MapGet(peers, resp.req.peerId.s).lastSeen = now

\* C25: the peer count in the answer of a successful Register is the number
\* of records after the registration's own sweep: it counts the registrant
\* and no stale record.
C25_PeersCountAfterSweep ==
  RegisterSucceeded =>
    /\ resp.json.peersCount = Len(peers)
    /\ resp.json.peersCount >= 1
    /\ MapHas(peers, resp.req.peerId.s)
    /\ \A i \in DOMAIN peers : ~IsStale(peers[i])

\* a registration made after the timeout answers with a count of one: the
\* record of the other peer, stored earlier, is no longer in the registry
C25_Witness ==
  /\ RegisterSucceeded
  /\ resp.json.peersCount = 1
  /\ \E id \in PeerIds :
       /\ id # resp.req.peerId.s
       /\ firstJoinedAt[id] # 0
       /\ ~MapHas(peers, id)
  /\ nextSweep > now
  /\ now - StartTime > PEER_TIMEOUT

\* the records seen less than the active window ago
RecentlySeen == {i \in DOMAIN peers : Age(peers[i]) < ACTIVE_WINDOW}

\* C26: the statistics of Discover and of Health give as total the number of
\* records, the requester and the stale records not yet evicted included,
\* and as active the number of records seen less than 60 s ago; active is
\* at most total.
C26_Statistics ==
  /\ DiscoverSucceeded =>
       /\ resp.json.serverStats.totalUsers = Len(peers)
       /\ resp.json.serverStats.activeUsers = Cardinality(RecentlySeen)
       /\ resp.json.serverStats.activeUsers <= resp.json.serverStats.totalUsers
  /\ resp.op = "health" =>
       /\ resp.json.users.total = Len(peers)
       /\ resp.json.users.active = Cardinality(RecentlySeen)
       /\ resp.json.users.active <= resp.json.users.total

\* Discover counts two records, the requester's and a stale one that no
\* sweep has evicted yet, and one of them as active
C26_Witness ==
  /\ DiscoverSucceeded
  /\ resp.json.serverStats.totalUsers = 2
  /\ resp.json.serverStats.activeUsers = 1
  /\ \E i \in DOMAIN peers : IsStale(peers[i])
  /\ ~IsStale(MapGet(peers, resp.req.peerId.s))

\* C27: the uniqueness check of Register considers only active records: a
\* Register is never answered UsernameTaken (409) when every record of
\* another peerId that holds the requested name is older than the 8-minute
\* timeout, swept or not.
C27_StaleNeverBlocks ==
  [][(resp'.op = "register"
      /\ \A i \in SameNamed(peers, resp'.req) : IsStale(peers[i]))
       => resp'.status # 409]_vars

(***************************************************************************)
(* SpecDistance: calculateDistance as a function of its two arguments.     *)
(* The arguments are drawn from locations that are missing, not objects,   *)
(* with a coordinate that is missing, a string or NaN, out of range, on    *)
(* the bounds of the range and inside it.  The distance of two points is   *)
(* modelled along a meridian, so two points in range are drawn with the    *)
(* same longitude and at most 0.1 degree of latitude apart.  The filter of *)
(* GET /peers and the uniqueness scan of POST /register are applied to     *)
(* records at the two locations.                                           *)
(***************************************************************************)
DistanceLocations ==
  {Undef, Str("here"),
   Origin, NearOrigin, JustInside, SixKilometres,
   Obj(Num(0 - 89930), Num(0)),
   Obj(Num(MAX_LATITUDE), Num(0)), Obj(Num(MAX_LATITUDE - 4), Num(0)),
   Obj(Num(MAX_LATITUDE + 1), Num(0)), Obj(Num(0 - MAX_LATITUDE - 1), Num(0)),
   Obj(Num(0), Num(MAX_LONGITUDE)), Obj(Num(4), Num(MAX_LONGITUDE)),
   Obj(Num(0), Num(MAX_LONGITUDE + 1)), Obj(Num(4), Num(0 - MAX_LONGITUDE - 1)),
   Obj(Undef, Num(0)), Obj(Num(0), Undef), Obj(Str("0"), Num(0)),
   Obj(NaN, Num(0)), Obj(Num(0), NaN)}

\* a location whose coordinates are numbers within the bounds
InRange(loc) ==
  /\ loc.t = "object"
  /\ loc.latitude.t = "number" /\ Abs(loc.latitude.n) <= MAX_LATITUDE
  /\ loc.longitude.t = "number" /\ Abs(loc.longitude.n) <= MAX_LONGITUDE

DistancePairs ==
  {pair \in DistanceLocations \X DistanceLocations :
     (InRange(pair[1]) /\ InRange(pair[2])) =>
        /\ pair[1].longitude = pair[2].longitude
        /\ Abs(pair[2].latitude.n - pair[1].latitude.n) <= 1000000}

\* a record seen at time t whose location field holds loc
RecordAt(id, name, loc, t) ==
  [peerData(<<>>, Body(Str(id), Chars(name), Origin, Str("A1")), t)
     EXCEPT !.location = loc]

InitDistance ==
  /\ peers = <<>>
  /\ connectionStats = [totalConnections |-> 0, activeUsers |-> 0,
                        messagesExchanged |-> 0]
  /\ now = StartTime
  /\ nextSweep = StartTime + SWEEP_INTERVAL
  /\ \E pair \in DistancePairs :
       resp = [op |-> "init", req |-> [loc1 |-> pair[1], loc2 |-> pair[2]]]
  /\ firstJoinedAt = [id \in PeerIds |-> 0]
  /\ requestedAt = [id \in PeerIds |-> Undef]
  /\ InitClient

\* calculateDistance(loc1, loc2), the filter of GET /peers for a requester
\* at loc1 and a record at loc2 with the widest range, and the uniqueness
\* scan of a registration at loc2 over a record of the same name at loc1
Distance ==
  /\ resp.op = "init"
  /\ LET loc1 == resp.req.loc1
         loc2 == resp.req.loc2
     IN resp' = [op |-> "distance", req |-> resp.req,
                 json |->
                   [distance |-> calculateDistance(loc1, loc2),
                    nearby |-> IsNearby(RecordAt(P2, Bobby, loc2, now),
                                        RecordAt(P1, Alice, loc1, now),
                                        MAX_RANGE, now),
                    taken |-> existingPeer(<<RecordAt(P1, Alice, loc1, now)>>,
                                           Str(P2), Alice, loc2) # {}]]
  /\ UNCHANGED <<peers, connectionStats, now, nextSweep, firstJoinedAt, requestedAt, clientVars>>

NextDistance == Distance

SpecDistance == InitDistance /\ [][NextDistance]_vars

\* a coordinate that is missing or not a number
NotNumeric(v) == v.t \in {"undefined", "string"}

\* a location that is missing, or one of whose coordinates is missing, is
\* not a number, or lies beyond 90 degrees of latitude or 180 of longitude
Unusable(loc) ==
  \/ loc.t # "object"
  \/ NotNumeric(loc.latitude) \/ NotNumeric(loc.longitude)
  \/ loc.latitude.t = "number" /\ Abs(loc.latitude.n) > MAX_LATITUDE
  \/ loc.longitude.t = "number" /\ Abs(loc.longitude.n) > MAX_LONGITUDE

\* a location with a NaN coordinate
HasNaN(loc) ==
  loc.t = "object" /\ (loc.latitude.t = "NaN" \/ loc.longitude.t = "NaN")

\* C28: the distance of a pair of locations one of which is missing or has
\* a coordinate that is missing, not a number or out of range is +infinity,
\* and the pair is neither kept by the range filter of Discover nor taken
\* for a username conflict by Register (nor is a pair with a NaN
\* coordinate).
C28_DistanceTotal ==
  resp.op = "distance" =>
    /\ (Unusable(resp.req.loc1) \/ Unusable(resp.req.loc2)) =>
         /\ resp.json.distance = Infinity
         /\ ~resp.json.nearby
         /\ ~resp.json.taken
    /\ (HasNaN(resp.req.loc1) \/ HasNaN(resp.req.loc2)) =>
         /\ ~resp.json.nearby
         /\ ~resp.json.taken

\* the distance from a point in range to a location without a latitude has
\* been computed
C28_Witness ==
  /\ resp.op = "distance"
  /\ InRange(resp.req.loc1)
  /\ resp.req.loc2 = Obj(Undef, Num(0))
  /\ resp.json.distance = Infinity
  /\ ~resp.json.nearby

CandidateIds == <<P1, P2, P3>>

Candidates(k) ==
  {[peerId |-> CandidateIds[k], isActive |-> active, distance |-> distance,
    joinedAt |-> StartTime + joined] :
     active \in BOOLEAN, distance \in {1, 80, 160, 250}, joined \in 0..2}

\* the orders in which the registry can iterate three records
IterationOrders ==
  {<<1, 2, 3>>, <<1, 3, 2>>, <<2, 1, 3>>, <<2, 3, 1>>, <<3, 1, 2>>, <<3, 2, 1>>}

InitCompare ==
  /\ peers = <<>>
  /\ connectionStats = [totalConnections |-> 0, activeUsers |-> 0,
                        messagesExchanged |-> 0]
  /\ now = StartTime
  /\ nextSweep = StartTime + SWEEP_INTERVAL
  /\ \E a \in Candidates(1), b \in Candidates(2), c \in Candidates(3) :
       resp = [op |-> "init", req |-> <<a, b, c>>]
  /\ firstJoinedAt = [id \in PeerIds |-> 0]
  /\ requestedAt = [id \in PeerIds |-> Undef]
  /\ InitClient

\* compare on every pair of the candidates, and nearbyPeers.sort(compare)
\* on the candidates in every iteration order
SortCandidates ==
  /\ resp.op = "init"
  /\ LET cs == resp.req
     IN resp' = [op |-> "sort", req |-> cs,
                 json |->
                   [compared |-> [k \in 1..3 |-> [l \in 1..3 |-> compare(cs[k], cs[l])]],
                    sorted |-> [order \in IterationOrders |->
                                  sort([k \in 1..3 |-> cs[order[k]]])]]]
  /\ UNCHANGED <<peers, connectionStats, now, nextSweep, firstJoinedAt, requestedAt, clientVars>>

NextCompare == SortCandidates

SpecCompare == InitCompare /\ [][NextCompare]_vars

\* a must precede b: active first; then nearer first when the distances
\* differ by more than 100 m; otherwise later joinedAt first
Precedes(a, b) ==
  \/ a.isActive /\ ~b.isActive
  \/ /\ a.isActive = b.isActive
     /\ \/ a.distance + SORT_DISTANCE_GAP < b.distance
        \/ /\ Abs(a.distance - b.distance) <= SORT_DISTANCE_GAP
           /\ a.joinedAt > b.joinedAt

\* the comparator puts the candidate at k before the one at l
ComparedBefore(k, l) == resp.json.compared[k][l] < 0

\* the relation the comparator computes is transitive on the candidates
ComparedTransitive ==
  \A k, l, m \in 1..3 :
    (ComparedBefore(k, l) /\ ComparedBefore(l, m)) => ComparedBefore(k, m)

\* neither of two candidates must precede the other
Tied(a, b) == ~Precedes(a, b) /\ ~Precedes(b, a)

\* C30 as claimed: the relation that ranks the results of Discover is
\* transitive, and the ranked list is the same whatever the order in which
\* the registry iterates the candidates.
C30_RankingTransitive ==
  resp.op = "sort" =>
    /\ ComparedTransitive
    /\ \A o1, o2 \in IterationOrders : resp.json.sorted[o1] = resp.json.sorted[o2]

\* C30 as amended: the comparator computes the ranking relation, and when
\* being within 100 m of distance is transitive among the candidates of the
\* same isActive the relation is transitive and every iteration order gives
\* a list in which no candidate comes after one it must precede; the list
\* is the same for every iteration order when no two candidates tie.
C30_TransitiveWhenGapsAgree ==
  resp.op = "sort" =>
    /\ \A k, l \in 1..3 : ComparedBefore(k, l) <=> Precedes(resp.req[k], resp.req[l])
    /\ GapsAgree(resp.req) =>
         /\ ComparedTransitive
         /\ \A order \in IterationOrders :
              LET ranked == resp.json.sorted[order]
              IN /\ {ranked[k] : k \in 1..3} = {resp.req[k] : k \in 1..3}
                 /\ \A k, l \in 1..3 : k < l => ~Precedes(ranked[l], ranked[k])
         /\ (\A k, l \in 1..3 : k # l => ~Tied(resp.req[k], resp.req[l])) =>
              \A o1, o2 \in IterationOrders :
                resp.json.sorted[o1] = resp.json.sorted[o2]

\* three candidates of the same isActive whose gaps agree have been sorted:
\* the first precedes the second by its later joinedAt, the second precedes
\* the third by its distance, and the registry held them in the opposite
\* order
C30_Witness ==
  /\ resp.op = "sort"
  /\ GapsAgree(resp.req)
  /\ \A k \in 1..3 : resp.req[k].isActive = resp.req[1].isActive
  /\ Abs(resp.req[1].distance - resp.req[2].distance) <= SORT_DISTANCE_GAP
  /\ resp.req[1].distance > resp.req[2].distance
  /\ resp.req[1].joinedAt > resp.req[2].joinedAt
  /\ resp.req[2].distance + SORT_DISTANCE_GAP < resp.req[3].distance
  /\ resp.req[2].joinedAt < resp.req[3].joinedAt
  /\ ComparedBefore(1, 2) /\ ComparedBefore(2, 3) /\ ComparedBefore(1, 3)
  /\ resp.json.sorted[<<3, 2, 1>>] = resp.req

(***************************************************************************)
(* SpecRevive: silent peers that come back.  Two peers within range of     *)
(* each other register when they have no record; the first sends a         *)
(* heartbeat and the second a status update only after more than 8 minutes *)
(* of silence, while the record is still stored; both query their          *)
(* neighbours and the timer sweeps.                                        *)
(***************************************************************************)
ReviveBodies ==
  {Body(Str(P1), Chars(Alice), Origin, Str("A1")),
   Body(Str(P2), Chars(Bobby), NearOrigin, Str("B2"))}

ReviveHeartbeatBodies == {[peerId |-> Str(P1), activity |-> Undef]}

ReviveStatusBodies == {[peerId |-> Str(P2), status |-> Str("away")]}

ReviveQueries == {[peerId |-> Str(id), range |-> Undef] : id \in {P1, P2}}

ReviveInstants ==
  {StartTime + k * SWEEP_INTERVAL : k \in 0..MaxPeriods}
  \cup {StartTime + PEER_TIMEOUT + 1, StartTime + SWEEP_INTERVAL + PEER_TIMEOUT + 1}

\* the record of the peer a request names is stored and stale
SilentTooLong(body) ==
  /\ MapHas(peers, body.peerId.s)
  /\ IsStale(MapGet(peers, body.peerId.s))

NextRevive ==
  \/ \E body \in ReviveBodies : ~MapHas(peers, body.peerId.s) /\ Register(body)
  \/ \E body \in ReviveHeartbeatBodies : SilentTooLong(body) /\ Heartbeat(body)
  \/ \E body \in ReviveStatusBodies : SilentTooLong(body) /\ SetStatus(body)
  \/ \E query \in ReviveQueries : Discover(query)
  \/ Sweep
  \/ \E t \in ReviveInstants : Tick(t)

SpecRevive == Init /\ [][NextRevive]_vars

\* C31: Heartbeat and Set Status succeed for a peerId whose record is stale
\* and not yet swept and set its lastSeen to now; a record seen within the
\* timeout and within range is listed by Discover, and a record seen since
\* the previous sweep is kept by the next one.
C31_StaleRecordRevived ==
  [][/\ (/\ resp'.op \in {"heartbeat", "status"}
         /\ HasKey(peers, resp'.req.peerId)
         /\ IsStale(MapGet(peers, resp'.req.peerId.s))) =>
          /\ resp'.status = 200
          /\ MapKeys(peers') = MapKeys(peers)
          /\ MapGet(peers', resp'.req.peerId.s).lastSeen = now
          /\ MapGet(peers', resp'.req.peerId.s).joinedAt =
               MapGet(peers, resp'.req.peerId.s).joinedAt
     /\ (resp'.op = "peers" /\ resp'.status = 200) =>
          \A i \in DOMAIN peers :
            (/\ peers[i].peerId # resp'.req.peerId.s
             /\ ~IsStale(peers[i])
             /\ calculateDistance(MapGet(peers, resp'.req.peerId.s).location,
                                  peers[i].location)
                  <= Metres(resp'.json.searchRange)) =>
              \E k \in DOMAIN resp'.json.peers :
                resp'.json.peers[k].peerId = peers[i].peerId
     /\ resp'.op = "sweep" =>
          \A i \in DOMAIN peers :
            now - peers[i].lastSeen <= SWEEP_INTERVAL => MapHas(peers', peers[i].peerId)]_vars

\* after a sweep, a Discover lists a peer that joined at the start, was
\* silent for more than 8 minutes, and was seen again before that sweep
C31_Witness ==
  /\ DiscoverSucceeded
  /\ nextSweep = now + SWEEP_INTERVAL
  /\ \E k \in DOMAIN resp.json.peers :
       /\ resp.json.peers[k].joinedAt = StartTime
       /\ resp.json.peers[k].lastSeen > StartTime + PEER_TIMEOUT
       /\ resp.json.peers[k].lastSeen < now

\* C32: every record has joinedAt <= lastSeen <= now, and the lastSeen of a
\* record that stays in the registry never decreases.
C32_SeenAfterJoined ==
  [][/\ \A i \in DOMAIN peers' :
          /\ peers'[i].joinedAt <= peers'[i].lastSeen
          /\ peers'[i].lastSeen <= now'
     /\ \A id \in MapKeys(peers) \cap MapKeys(peers') :
          MapGet(peers', id).lastSeen >= MapGet(peers, id).lastSeen]_vars

\* a status update has moved the lastSeen of a record that joined earlier,
\* and time has passed since
C32_Witness ==
  /\ resp.op = "tick"
  /\ \E i \in DOMAIN peers :
       /\ peers[i].status = "busy"
       /\ peers[i].joinedAt < peers[i].lastSeen
       /\ peers[i].lastSeen < now

\* C33: Set Status validates the status before it looks the peer up: with a
\* peerId that has no record and a status that is not one of online, away,
\* busy, offline the answer is InvalidStatus (400), not PeerNotFound (404).
C33_StatusValidatedFirst ==
  (/\ resp.op = "status"
   /\ ~Falsy(resp.req.peerId)
   /\ ~HasKey(peers, resp.req.peerId)
   /\ ~StatusAccepted(resp.req.status)) =>
     /\ resp.status = 400
     /\ resp.json.error \in {E_INVALID_STATUS, E_STATUS_REQUIRED}
     /\ ~Falsy(resp.req.status) => resp.json.error = E_INVALID_STATUS

\* the status 'sleeping' has been refused for a peer whose record has been
\* evicted
C33_Witness ==
  /\ resp.op = "status"
  /\ resp.req.status = Str("sleeping")
  /\ firstJoinedAt[resp.req.peerId.s] # 0
  /\ ~MapHas(peers, resp.req.peerId.s)
  /\ resp.status = 400
  /\ resp.json.error = E_INVALID_STATUS

(***************************************************************************)
(* SpecReplace: registering again.  A peer registers, sends heartbeats     *)
(* with an activity, sets its status, and registers again, with another    *)
(* avatar and from another place, once its record holds an activity and a  *)
(* status other than 'online'.                                             *)
(***************************************************************************)
ReplaceBodies ==
  {Body(Str(P1), Chars(Alice), loc, Str(avatar)) :
     loc \in {Origin, NearOrigin}, avatar \in {"A1", "B2"}}

ReplaceHeartbeatBodies ==
  {[peerId |-> Str(P1), activity |-> activity] :
     activity \in {Str("typing"), Str("browsing")}}

ReplaceStatusBodies ==
  {[peerId |-> Str(P1), status |-> Str(status)] : status \in {"busy", "offline", "away"}}

ReplaceInstants ==
  {StartTime + k * SWEEP_INTERVAL : k \in 0..MaxPeriods}
  \cup {StartTime + 1, StartTime + 2, StartTime + PEER_TIMEOUT + 1}

\* the peer has no record, or its record holds an activity and a status
\* other than 'online'
ReadyToRegister(body) ==
  MapHas(peers, body.peerId.s) =>
    /\ MapGet(peers, body.peerId.s).status # "online"
    /\ MapGet(peers, body.peerId.s).lastActivity # Undef

NextReplace ==
  \/ \E body \in ReplaceBodies : ReadyToRegister(body) /\ Register(body)
  \/ \E body \in ReplaceHeartbeatBodies : Heartbeat(body)
  \/ \E body \in ReplaceStatusBodies : SetStatus(body)
  \/ Sweep
  \/ \E t \in ReplaceInstants : Tick(t)

SpecReplace == Init /\ [][NextReplace]_vars

\* C34: a successful Register of a peerId that has a record replaces the
\* record: afterwards its status is 'online' whatever it was, and the
\* activity and the activity time of an earlier Heartbeat are gone.
C34_ReRegisterReplaces ==
  [][(/\ resp'.op = "register"
      /\ resp'.status = 200
      /\ MapHas(peers, resp'.req.peerId.s)) =>
       LET new == MapGet(peers', resp'.req.peerId.s)
       IN /\ new.status = "online"
          /\ new.lastActivity = Undef
          /\ new.lastActivityTime = Undef]_vars

\* the one peer that ever registered has registered again, after its
\* record held an activity and a status other than 'online': the record
\* keeps its joinedAt and holds neither
C34_Witness ==
  /\ RegisterSucceeded
  /\ connectionStats.totalConnections = 1
  /\ MapGet(peers, resp.req.peerId.s).joinedAt < now
  /\ MapGet(peers, resp.req.peerId.s).lastSeen = now
  /\ MapGet(peers, resp.req.peerId.s).status = "online"
  /\ MapGet(peers, resp.req.peerId.s).lastActivity = Undef

(***************************************************************************)
(* SpecSwept: Discover with and without a sweep before it.  Three peers    *)
(* within range of each other register when they have no record, at       *)
(* instants up to past the timeout, so that stale records are stored when  *)
(* two of them query their neighbours; the timer sweeps.                   *)
(***************************************************************************)
SweptBodies ==
  {Body(Str(P1), Chars(Alice), Origin, Str("A1")),
   Body(Str(P2), Chars(Bobby), OneMetre, Str("A1")),
   Body(Str(P3), Chars(Carol), EightyMetres, Str("A1"))}

SweptQueries == {[peerId |-> Str(id), range |-> Undef] : id \in {P1, P2}}

SweptInstants ==
  {StartTime + k * SWEEP_INTERVAL : k \in 0..MaxPeriods}
  \cup {StartTime + PEER_TIMEOUT + 1}

NextSwept ==
  \/ \E body \in SweptBodies : ~MapHas(peers, body.peerId.s) /\ Register(body)
  \/ \E query \in SweptQueries : Discover(query)
  \/ Sweep
  \/ \E t \in SweptInstants : Tick(t)

SpecSwept == Init /\ [][NextSwept]_vars

\* the answer to the query of a Discover step, had cleanupOldPeers run
\* right before it
AfterSweep == DiscoverResponse(SweptPeers(peers, now), resp'.req, now)

\* the answer of a Discover step and the answer after a sweep have the same
\* list, total and range
SameFound ==
  /\ AfterSweep.status = resp'.status
  /\ resp'.status = 200 =>
       /\ AfterSweep.json.peers = resp'.json.peers
       /\ AfterSweep.json.total = resp'.json.total
       /\ AfterSweep.json.searchRange = resp'.json.searchRange
       /\ AfterSweep.json.serverStats.activeUsers = resp'.json.serverStats.activeUsers
       /\ AfterSweep.json.serverStats.totalUsers <= resp'.json.serverStats.totalUsers

\* C35 as claimed: for the same requester, range and time, Discover returns
\* the same ranked list and the same total whether or not a sweep runs
\* right before it; only the number of registered users may differ.
C35_SweepInvisible ==
  [][resp'.op = "peers" => SameFound]_vars

\* C35 as amended: the same holds for a requester whose own record is not
\* stale, or who has no record.
C35_SweepInvisibleToFreshRequester ==
  [][(/\ resp'.op = "peers"
      /\ HasKey(peers, resp'.req.peerId) => ~IsStale(MapGet(peers, resp'.req.peerId.s)))
       => SameFound]_vars

\* a Discover of a requester seen within the timeout has listed a peer
\* while the stale record of a third one is stored
C35_Witness ==
  /\ DiscoverSucceeded
  /\ ~IsStale(MapGet(peers, resp.req.peerId.s))
  /\ Len(resp.json.peers) = 1
  /\ resp.json.serverStats.totalUsers = 3
  /\ \E i \in DOMAIN peers : IsStale(peers[i])

\* C36: whatever the range of the request (missing, not a number, zero,
\* negative or above the cap), the range that Discover uses and reports is
\* a positive number of metres not above 50000.
C36_RangePositiveAndCapped ==
  DiscoverSucceeded =>
    /\ resp.json.searchRange > 0
    /\ resp.json.searchRange <= MAX_RANGE

\* C39: connectionStats.totalConnections grows by one with every successful
\* Register of a peerId that has no record and is changed by nothing else,
\* so it never decreases and is at least the number of records.
C39_TotalConnectionsCounts ==
  [][/\ connectionStats'.totalConnections =
          connectionStats.totalConnections +
            (IF /\ resp'.op = "register"
                /\ resp'.status = 200
                /\ ~MapHas(peers, resp'.req.peerId.s)
             THEN 1 ELSE 0)
     /\ connectionStats'.totalConnections >= Len(peers')]_vars

\* a peer whose record was evicted has registered anew: the counter is
\* above the number of records
C39_Witness ==
  /\ RegisterSucceeded
  /\ MapGet(peers, resp.req.peerId.s).joinedAt = now
  /\ firstJoinedAt[resp.req.peerId.s] < now
  /\ connectionStats.totalConnections > Len(peers)

(***************************************************************************)
(* The client's heartbeat (src/app.js).  handleUsernameSubmit opens the    *)
(* peer, posts the registration and, once the answer has come, starts a    *)
(* timer that posts a heartbeat with the activity 'active' every 30 s.     *)
(***************************************************************************)
HEARTBEAT_PERIOD == 30000

ClientBody == Body(Str(P1), Chars(Alice), Origin, Str("A1"))

ClientHeartbeatBody == [peerId |-> Str(P1), activity |-> Str("active")]

\* initializePeer up to the fetch of registerWithServer: the peer is open
\* and POST /register is on its way
registerWithServer ==
  /\ pending.register = "none"
  /\ app.heartbeatInterval = 0
  /\ app' = [app EXCEPT !.peerOpen = TRUE]
  /\ pending' = [pending EXCEPT !.register = "sent"]
  /\ UNCHANGED <<peers, connectionStats, now, nextSweep, resp, firstJoinedAt,
                 requestedAt, attemptsSinceOpen>>

\* the server handles the client's POST /register; the answer is on its way
RegisterDelivered ==
  /\ pending.register = "sent"
  /\ RegisterHandled(ClientBody)
  /\ pending' = [pending EXCEPT !.register = IF resp'.status = 200
                                             THEN "ok" ELSE "failed"]
  /\ UNCHANGED <<app, attemptsSinceOpen>>

\* the answer has come: initializePeer sets the listeners up and resolves,
\* and handleUsernameSubmit calls startHeartbeat
startHeartbeat ==
  /\ pending.register = "ok"
  /\ app.heartbeatInterval = 0
  /\ app' = [app EXCEPT !.listening = TRUE,
                        !.heartbeatInterval = now + HEARTBEAT_PERIOD]
  /\ pending' = [pending EXCEPT !.register = "none"]
  /\ UNCHANGED <<peers, connectionStats, now, nextSweep, resp, firstJoinedAt,
                 requestedAt, attemptsSinceOpen>>

\* sendHeartbeat on a timer of twice the period
sendHeartbeatHalfAsOften ==
  /\ app.heartbeatInterval # 0
  /\ now = app.heartbeatInterval
  /\ app' = [app EXCEPT !.heartbeatInterval = now + 2 * HEARTBEAT_PERIOD]
  /\ pending' = [pending EXCEPT !.heartbeats = @ + 1]
  /\ UNCHANGED <<peers, connectionStats, now, nextSweep, resp, firstJoinedAt,
                 requestedAt, attemptsSinceOpen>>

\* the timer fires: sendHeartbeat posts a heartbeat
sendHeartbeat ==
  /\ app.heartbeatInterval # 0
  /\ now = app.heartbeatInterval
  /\ app' = [app EXCEPT !.heartbeatInterval = now + HEARTBEAT_PERIOD]
  /\ pending' = [pending EXCEPT !.heartbeats = @ + 1]
  /\ UNCHANGED <<peers, connectionStats, now, nextSweep, resp, firstJoinedAt,
                 requestedAt, attemptsSinceOpen>>

\* the server handles a POST /heartbeat of the client
HeartbeatDelivered ==
  /\ pending.heartbeats > 0
  /\ HeartbeatHandled(ClientHeartbeatBody)
  /\ pending' = [pending EXCEPT !.heartbeats = @ - 1]
  /\ UNCHANGED <<app, attemptsSinceOpen>>

(***************************************************************************)
(* SpecBeat: a client that heartbeats and a neighbour that looks for it.   *)
(* The client registers and starts its timer when the answer has come; the *)
(* timer fires when it is due and each heartbeat is handled by the server  *)
(* before the next one is due.  A second peer, within range, registers     *)
(* when it has no record, at the start or right after a sweep, and queries *)
(* its neighbours; the server's timer sweeps.                              *)
(***************************************************************************)
BeatRounds == (MaxPeriods * SWEEP_INTERVAL) \div HEARTBEAT_PERIOD

BeatInstants ==
  {StartTime + k * HEARTBEAT_PERIOD + o : k \in 0..BeatRounds, o \in {0, 1}}

BeatBodies == {Body(Str(P2), Chars(Bobby), NearOrigin, Str("B2"))}

BeatQueries == {[peerId |-> Str(P2), range |-> Undef]}

\* time may pass to t: the heartbeat timer is not overdue at t, and a
\* heartbeat that is on its way arrives before the timer is next due
OnTime(t) ==
  /\ app.heartbeatInterval # 0 => t <= app.heartbeatInterval
  /\ pending.heartbeats > 0 => t < app.heartbeatInterval

NextBeat ==
  \/ registerWithServer
  \/ RegisterDelivered
  \/ startHeartbeat
  \/ sendHeartbeat
  \/ HeartbeatDelivered
  \/ \E body \in BeatBodies :
       ~MapHas(peers, body.peerId.s) /\ now = nextSweep - SWEEP_INTERVAL /\ Register(body)
  \/ \E query \in BeatQueries : Discover(query)
  \/ Sweep
  \/ \E t \in BeatInstants : OnTime(t) /\ Tick(t)

SpecBeat == Init /\ [][NextBeat]_vars

\* a heartbeat of the client has been handled while its record is in ps
BeatDelivered(ps) == MapHas(ps, P1) /\ MapGet(ps, P1).lastActivity # Undef

\* a step in which the server answers the neighbour's Discover
NeighbourDiscovers == resp'.op = "peers" /\ resp'.status = 200 /\ resp' # resp

\* the answer of that step lists the client, as active or not
ClientListed(active) ==
  \E k \in DOMAIN resp'.json.peers :
    /\ resp'.json.peers[k].peerId = P1
    /\ resp'.json.peers[k].isActive = active

maxReconnectAttempts == 5

\* the events stop once this many attempts have been scheduled since the
\* peer was last open, or this many callbacks are waiting
MaxAttempts == 7

\* the fields after attemptReconnection(): nothing at the limit, else one
\* more attempt counted and one more callback scheduled
attemptReconnection(a, p) ==
  IF a.reconnectAttempts >= maxReconnectAttempts
  THEN [app |-> a, pending |-> p, scheduled |-> 0]
  ELSE [app |-> [a EXCEPT !.reconnectAttempts = @ + 1],
        pending |-> [p EXCEPT !.reconnections = @ + 1],
        scheduled |-> 1]

\* attemptReconnection() called on fields a and p
Attempted(a, p) ==
  LET out == attemptReconnection(a, p)
  IN /\ app' = out.app
     /\ pending' = out.pending
     /\ attemptsSinceOpen' = attemptsSinceOpen + out.scheduled

\* the peer emits 'disconnected': the connection to the server is lost
PeerDisconnected ==
  /\ app.listening
  /\ ~app.peerDisconnected
  /\ attemptsSinceOpen < MaxAttempts
  /\ pending.reconnections < MaxAttempts
  /\ Attempted([app EXCEPT !.peerOpen = FALSE, !.peerDisconnected = TRUE], pending)
  /\ UNCHANGED <<peers, connectionStats, now, nextSweep, resp, firstJoinedAt,
                 requestedAt>>

\* the peer emits an 'error' of type network
PeerNetworkError ==
  /\ app.listening
  /\ attemptsSinceOpen < MaxAttempts
  /\ pending.reconnections < MaxAttempts
  /\ Attempted(app, pending)
  /\ UNCHANGED <<peers, connectionStats, now, nextSweep, resp, firstJoinedAt,
                 requestedAt>>

\* the fields when a scheduled callback starts to run
CallbackRuns == [pending EXCEPT !.reconnections = @ - 1]

\* a callback finds the peer not open: peer.reconnect() returns, a
\* disconnected peer starts to connect, and the counter is reset
ReconnectReturns ==
  /\ pending.reconnections > 0
  /\ ~app.peerOpen
  /\ app' = [app EXCEPT !.peerDisconnected = FALSE, !.reconnectAttempts = 0]
  /\ pending' = CallbackRuns
  /\ UNCHANGED <<peers, connectionStats, now, nextSweep, resp, firstJoinedAt,
                 requestedAt, attemptsSinceOpen>>

\* a callback finds the peer not open and peer.reconnect() throws: the
\* catch clause calls attemptReconnection()
ReconnectThrows ==
  /\ pending.reconnections > 0
  /\ ~app.peerOpen
  /\ attemptsSinceOpen < MaxAttempts
  /\ Attempted(app, CallbackRuns)
  /\ UNCHANGED <<peers, connectionStats, now, nextSweep, resp, firstJoinedAt,
                 requestedAt>>

\* a callback finds the peer open: initializePeer() makes a new peer, which
\* opens and registers, and the counter is reset
InitializeResolves ==
  /\ pending.reconnections > 0
  /\ app.peerOpen
  /\ app' = [app EXCEPT !.reconnectAttempts = 0]
  /\ pending' = CallbackRuns
  /\ attemptsSinceOpen' = 0
  /\ UNCHANGED <<peers, connectionStats, now, nextSweep, resp, firstJoinedAt,
                 requestedAt>>

\* a callback finds the peer open and initializePeer() rejects: the new
\* peer is not open and the catch clause calls attemptReconnection()
InitializeRejects ==
  /\ pending.reconnections > 0
  /\ app.peerOpen
  /\ attemptsSinceOpen < MaxAttempts
  /\ Attempted([app EXCEPT !.peerOpen = FALSE], CallbackRuns)
  /\ UNCHANGED <<peers, connectionStats, now, nextSweep, resp, firstJoinedAt,
                 requestedAt>>

\* the connection that peer.reconnect() started opens
PeerReopens ==
  /\ app.listening
  /\ ~app.peerOpen
  /\ ~app.peerDisconnected
  /\ app' = [app EXCEPT !.peerOpen = TRUE]
  /\ attemptsSinceOpen' = 0
  /\ UNCHANGED <<peers, connectionStats, now, nextSweep, resp, firstJoinedAt,
                 requestedAt, pending>>

(***************************************************************************)
(* SpecReconnect: the client registers, and then its peer loses and finds  *)
(* the server in any order, with network errors in between, while the      *)
(* scheduled callbacks run.                                                *)
(***************************************************************************)
NextReconnect ==
  \/ registerWithServer
  \/ RegisterDelivered
  \/ startHeartbeat
  \/ PeerDisconnected
  \/ PeerNetworkError
  \/ ReconnectReturns
  \/ ReconnectThrows
  \/ InitializeResolves
  \/ InitializeRejects
  \/ PeerReopens

SpecReconnect == Init /\ [][NextReconnect]_vars

\* C38: reconnectAttempts never exceeds maxReconnectAttempts (5), and once
\* 5 reconnection attempts in a row have not brought an open peer back, no
\* further attempt is scheduled, whatever the 'disconnected' and network
\* 'error' events.
C38_ReconnectionBounded ==
  /\ app.reconnectAttempts <= maxReconnectAttempts
  /\ attemptsSinceOpen <= maxReconnectAttempts

====
